---- MODULE Spec2Model ----
(***************************************************************************)
(* Attendance control for a graduation ceremony: the check-in state        *)
(* machine of main.py (api_verify and the administrative resets), the      *)
(* companion credential issuance of generate_companion_qr.py, the          *)
(* invitation senders of send_companion_invitations.py, the batch          *)
(* generator of batch_qr_generator.py, the delivery queue of               *)
(* email_queue.py and the background job manager of job_manager.py.        *)
(*                                                                         *)
(* The relational store is PostgreSQL at READ COMMITTED: every statement   *)
(* of a request sees what is committed when it runs, so each request is    *)
(* one action per statement (or per transaction when its statements are    *)
(* only made visible by the commit).                                       *)
(***************************************************************************)
EXTENDS Integers, Sequences, FiniteSets, TLC

\* ------------------------------------------------------------------ bounds
MaxUuid == 8
MaxClock == 2
MaxJobs == 1
MaxTasks == 2
MaxStudents == 5
MaxBatchSize == 2
MaxRecipients == 2
MaxEmailBatch == 2
TimeoutPolls == 2
MaxRuns == 2

\* -------------------------------------------------------------- constants
NULL == 0

\* EmailQueue(rate_limit_per_minute=30, ...) of send_qr_emails_batch.
rate_limit_per_minute == 30

\* EmailQueue(max_retries=3).
max_retries == 3

\* The students of the store, the scanners at the gate (threads of the HTTP
\* server running api_verify) and the callers that issue companion credentials.
Students == {1, 2}
Scanners == {1, 2}
Issuers == {1, 2}
Generators == {1, 2}
Runs == 1..MaxRuns
Cedulas == {NULL} \cup Students
CompanionPrefix == "companion_"
StudentPrefix == ""

VARIABLES
    students,       \* table students: student id -> row
    companions,     \* table companions: a set of rows
    companions_seq, \* the SERIAL sequence of companions.id
    uuid_seq,       \* how many values uuid.uuid4 has returned
    clock,          \* the wall clock datetime.now reads
    scan,           \* the api_verify request run by each scanner
    issuer,         \* the companion issuance run by each issuer
    active_jobs,    \* JobManager.active_jobs: job id -> Job
    next_job,       \* the number of job ids handed out so far
    tasks,          \* the _execute_job coroutines made by asyncio.create_task
    handler_calls,  \* per job id, how often line 100 invoked its handler
    last_call,      \* the last manager call and what it returned
    status_seen,    \* per job id, what get_job_status returned last
    batch,          \* the generate_missing_qrs_batch run of each generator
    mail            \* the runs of send_qr_emails_batch, each with its EmailQueue

verify_vars == <<students, companions, companions_seq, uuid_seq, scan, issuer>>
job_vars == <<active_jobs, next_job, tasks, handler_calls, last_call, status_seen>>
vars == <<students, companions, companions_seq, uuid_seq, clock, scan, issuer,
          active_jobs, next_job, tasks, handler_calls, last_call, status_seen, batch, mail>>

\* ------------------------------------------------------------------ tokens
\* uuid.uuid4() returns a value it has not returned before: the values are
\* numbered in the order they are drawn. A primary token is str(uuid4()); a
\* companion token is "companion_" + uuid4().hex.
\* Faulty variant: a companion token without its prefix.
generate_unique_qr_data_bare(u) == [pfx |-> StudentPrefix, hex |-> u]

generate_unique_qr_data(u) == [pfx |-> CompanionPrefix, hex |-> u]

student_qr_data(u) == [pfx |-> StudentPrefix, hex |-> u]

\* The payload without qr_data (main.py line 228).
NoQrData == [pfx |-> StudentPrefix, hex |-> 0]

\* The payloads of the codes held at the gate when no companion credential
\* is being issued: the issued ones, one of each kind never issued, none.
GatePayloads ==
    {generate_unique_qr_data(u) : u \in 3..5}
        \cup {student_qr_data(u) : u \in {1, 2, 5}} \cup {NoQrData}

\* ------------------------------------------------------------------- store
FirstName(s) == IF s = 1 THEN "Ana" ELSE "Luis"

LastName(s) == IF s = 1 THEN "Perez" ELSE "Rojas"

\* The base64 PNG that encodes a token, and the NULL of that column.
qr_image_b64(qr_data) == [png |-> qr_data]

NoImage == qr_image_b64(NoQrData)

StudentRow(s, status) ==
    [id |-> s, first_name |-> FirstName(s), last_name |-> LastName(s),
     cedula |-> s, payment_confirmed |-> TRUE, qr_data |-> student_qr_data(s),
     qr_image_b64 |-> qr_image_b64(student_qr_data(s)),
     qr_generated_at |-> 1, qr_sent_at |-> NULL,
     access_status |-> status, checked_in_at |-> NULL]

CompanionRow(id, s, n, qr, status) ==
    [id |-> id, student_id |-> s, companion_number |-> n, qr_data |-> qr,
     access_status |-> status, checked_in_at |-> NULL, pdf_sent_at |-> NULL]

NoRow == [id |-> 0]

Response(status, code, type, row) ==
    [status |-> status, code |-> code, type |-> type, subject |-> row]

NoResponse == Response("none", 0, "none", NoRow)

Idle == [pc |-> "idle", qr_data |-> NoQrData, row |-> NoRow, response |-> NoResponse]

\* replaced: the tokens a regeneration has deleted.
IssuerIdle == [pc |-> "idle", student_id |-> 0, qr_codes |-> <<>>, replaced |-> {}]

NoBatchResult == [success |-> FALSE, generated_count |-> 0, total_students |-> 0,
                  has_total |-> FALSE, error |-> ""]

BatchIdle ==
    [pc |-> "idle", batch_size |-> 0, students |-> <<>>, i |-> 0, chunks |-> <<>>,
     failed |-> {}, all_qr_data |-> <<>>, executed |-> 0, result |-> NoBatchResult]

\* What send_qr_emails_batch returns.
NoMailResult ==
    [success |-> FALSE, has_counts |-> FALSE, total_emails |-> 0,
     sent_count |-> 0, failed_count |-> 0]

\* No delivery run. worker is the state of the task of start_worker, batch
\* its local list, sleep the seconds of the asyncio.sleep it is in;
\* retry_count belongs to the EmailJob of each student.
\* attempts, marked, sent_for and failed_for record per student the
\* outcomes of the deliveries tried, the UPDATEs of qr_sent_at and the
\* increments of sent_count and failed_count made for its job.
MailIdle ==
    [pc |-> "idle", smtp_config |-> TRUE, queue |-> <<>>, failed_queue |-> <<>>,
     worker |-> "none", batch |-> <<>>, sleep |-> 0,
     retry_count |-> [s \in 1..MaxRecipients |-> 0],
     sent_count |-> 0, failed_count |-> 0, elapsed |-> 0, total_emails |-> 0,
     result |-> NoMailResult,
     attempts |-> [s \in 1..MaxRecipients |-> <<>>],
     marked |-> [s \in 1..MaxRecipients |-> 0],
     sent_for |-> [s \in 1..MaxRecipients |-> 0],
     failed_for |-> [s \in 1..MaxRecipients |-> 0]]

\* The store after the students were synced, their primary credentials
\* generated and the companions of student 1 issued; an operator may have
\* set the primary credential of student 2 and the second companion of
\* student 1 to denied.
InitStore ==
    /\ \E st \in {"pending", "denied"} :
          students = [s \in Students |-> StudentRow(s, IF s = 2 THEN st ELSE "pending")]
    /\ \E st \in {"pending", "denied"} :
          companions = {CompanionRow(1, 1, 1, generate_unique_qr_data(3), "pending"),
                        CompanionRow(2, 1, 2, generate_unique_qr_data(4), st)}
    /\ companions_seq = 2
    /\ uuid_seq = 4
    /\ clock = 1
    /\ scan = [p \in Scanners |-> Idle]
    /\ issuer = [q \in Issuers |-> IssuerIdle]
    /\ batch = [g \in Generators |-> BatchIdle]
    /\ mail = [r \in Runs |-> MailIdle]

\* datetime.now(VE_TZ).
Now == clock

\* Time passes between any two steps.
Tick ==
    /\ clock < MaxClock
    /\ clock' = clock + 1
    /\ UNCHANGED <<verify_vars, job_vars, batch, mail>>

\* -------------------------------------------------------------- api_verify
\* Faulty variant: the lookup of lines 235-243 left out, every token going
\* to the primary lookup.
CompanionMatches_skipped(qr_data) == {}

\* SELECT ... FROM companions c ... WHERE c.qr_data = %s (lines 235-241).
CompanionMatches(qr_data) == {c \in companions : c.qr_data = qr_data}

\* Faulty variant: the SELECT of line 287 without its WHERE clause.
StudentMatches_any(qr_data) == {s \in Students : students[s].qr_data # NoQrData}

StudentMatches(qr_data) == {s \in Students : students[s].qr_data = qr_data}

\* The row of SELECT ... FROM companions c JOIN students s ... (lines 235-243).
CompanionJoin(c) ==
    [id |-> c.id, companion_number |-> c.companion_number,
     access_status |-> c.access_status, checked_in_at |-> c.checked_in_at,
     first_name |-> students[c.student_id].first_name,
     last_name |-> students[c.student_id].last_name]

\* The row of SELECT id, first_name, ... FROM students (line 287).
StudentSelect(s) ==
    [id |-> students[s].id, companion_number |-> 0,
     access_status |-> students[s].access_status,
     checked_in_at |-> students[s].checked_in_at,
     first_name |-> students[s].first_name,
     last_name |-> students[s].last_name]

\* Faulty variant: no test for a companion already checked in.
companion_branch_rescan(access_status) ==
    IF access_status = "denied" THEN "denied" ELSE "update"

\* The branch on the companion row read (lines 253, 261, 269).
companion_branch(access_status) ==
    IF access_status = "checked_in" THEN "warning"
    ELSE IF access_status = "denied" THEN "denied"
    ELSE "update"

\* Faulty variant: no test for a denied student.
student_branch_undenied(access_status) ==
    IF access_status = "checked_in" THEN "warning" ELSE "update"

\* The branch on the student row read (lines 298, 306, 314).
student_branch(access_status) ==
    IF access_status = "checked_in" THEN "warning"
    ELSE IF access_status = "denied" THEN "denied"
    ELSE "update"

Answer(p, qr_data, branch, type, row) ==
    IF branch = "warning"
    THEN [pc |-> "done", qr_data |-> qr_data, row |-> row,
          response |-> Response("warning", 200, type, row)]
    ELSE IF branch = "denied"
    THEN [pc |-> "done", qr_data |-> qr_data, row |-> row,
          response |-> Response("error", 403, type, row)]
    ELSE [pc |-> "update_" \o type, qr_data |-> qr_data, row |-> row,
          response |-> NoResponse]

\* Lines 227-243 and the branches that answer without a write: the payload
\* check and the companion lookup.
api_verify_select_companion(p, qr_data) ==
    /\ scan[p].pc = "idle"
    /\ IF qr_data = NoQrData
       THEN scan' = [scan EXCEPT ![p] =
                [pc |-> "done", qr_data |-> qr_data, row |-> NoRow,
                 response |-> Response("error", 400, "none", NoRow)]]
       ELSE IF CompanionMatches(qr_data) # {}
       THEN \E c \in CompanionMatches(qr_data) :
                scan' = [scan EXCEPT ![p] =
                    Answer(p, qr_data, companion_branch(c.access_status),
                           "companion", CompanionJoin(c))]
       ELSE scan' = [scan EXCEPT ![p] =
                [pc |-> "select_student", qr_data |-> qr_data, row |-> NoRow,
                 response |-> NoResponse]]
    /\ UNCHANGED <<students, companions, companions_seq, uuid_seq, issuer, clock, job_vars, batch, mail>>

\* Lines 285-313: the primary lookup, made when no companion matched.
api_verify_select_student(p) ==
    /\ scan[p].pc = "select_student"
    /\ IF StudentMatches(scan[p].qr_data) = {}
       THEN scan' = [scan EXCEPT ![p] =
                [pc |-> "done", qr_data |-> scan[p].qr_data, row |-> NoRow,
                 response |-> Response("error", 404, "none", NoRow)]]
       ELSE \E s \in StudentMatches(scan[p].qr_data) :
                scan' = [scan EXCEPT ![p] =
                    Answer(p, scan[p].qr_data, student_branch(students[s].access_status),
                           "student", StudentSelect(s))]
    /\ UNCHANGED <<students, companions, companions_seq, uuid_seq, issuer, clock, job_vars, batch, mail>>

\* Faulty variant: the UPDATE of line 272 keyed by nothing.
update_companions_all(table, id, now) ==
    {[c EXCEPT !.access_status = "checked_in", !.checked_in_at = now] : c \in table}

\* UPDATE companions SET access_status, checked_in_at WHERE id (line 272).
update_companions(table, id, now) ==
    {IF c.id = id
     THEN [c EXCEPT !.access_status = "checked_in", !.checked_in_at = now]
     ELSE c : c \in table}

\* UPDATE students SET access_status, checked_in_at WHERE id (line 317).
update_students(table, id, now) ==
    [s \in DOMAIN table |->
        IF table[s].id = id
        THEN [table[s] EXCEPT !.access_status = "checked_in", !.checked_in_at = now]
        ELSE table[s]]

Welcome(type, row, now) ==
    Response("ok", 200, type,
             [row EXCEPT !.access_status = "checked_in", !.checked_in_at = now])

\* Lines 269-283: the unconditional write of the companion check-in.
api_verify_update_companion(p) ==
    /\ scan[p].pc = "update_companion"
    /\ UNCHANGED clock
    /\ companions' = update_companions(companions, scan[p].row.id, Now)
    /\ scan' = [scan EXCEPT ![p].pc = "done",
                            ![p].response = Welcome("companion", scan[p].row, Now)]
    /\ UNCHANGED <<students, companions_seq, uuid_seq, issuer, job_vars, batch, mail>>

\* Lines 314-327: the unconditional write of the primary check-in.
api_verify_update_student(p) ==
    /\ scan[p].pc = "update_student"
    /\ UNCHANGED clock
    /\ students' = update_students(students, scan[p].row.id, Now)
    /\ scan' = [scan EXCEPT ![p].pc = "done",
                            ![p].response = Welcome("student", scan[p].row, Now)]
    /\ UNCHANGED <<companions, companions_seq, uuid_seq, issuer, job_vars, batch, mail>>

\* The response is sent; the scanner is free for the next scan.
api_verify_return(p) ==
    /\ scan[p].pc = "done"
    /\ scan' = [scan EXCEPT ![p] = Idle]
    /\ UNCHANGED <<students, companions, companions_seq, uuid_seq, issuer, clock, job_vars, batch, mail>>

\* ------------------------------------------------------ administrative resets
ResetRow(r) == [r EXCEPT !.access_status = "pending", !.checked_in_at = NULL]

\* POST /admin/reset-checkin: both UPDATEs are committed together.
admin_reset_checkin ==
    /\ students' = [s \in Students |-> ResetRow(students[s])]
    /\ companions' = {ResetRow(c) : c \in companions}
    /\ UNCHANGED <<companions_seq, uuid_seq, scan, issuer, clock, job_vars, batch, mail>>

\* POST /admin/reset-checkin-cedula: the student of that cedula and the
\* companions of that student; an empty cedula is rejected.
admin_reset_checkin_cedula(cedula) ==
    /\ IF cedula = NULL
       THEN UNCHANGED <<students, companions>>
       ELSE /\ students' = [s \in Students |->
                    IF students[s].cedula = cedula THEN ResetRow(students[s])
                    ELSE students[s]]
            /\ companions' = {IF \E s \in Students : /\ students[s].cedula = cedula
                                                      /\ c.student_id = students[s].id
                              THEN ResetRow(c) ELSE c : c \in companions}
    /\ UNCHANGED <<companions_seq, uuid_seq, scan, issuer, clock, job_vars, batch, mail>>

\* ------------------------------------------------- companion credential issuance
CompanionsOf(table, student_id) == {c \in table : c.student_id = student_id}

SlotOf(table, student_id, n) ==
    {c \in CompanionsOf(table, student_id) : c.companion_number = n}

\* get_companion_qr_codes: the two tokens in slot order, or None.
get_companion_qr_codes(student_id) ==
    IF Cardinality(CompanionsOf(companions, student_id)) = 2
    THEN <<(CHOOSE c \in SlotOf(companions, student_id, 1) : TRUE).qr_data,
           (CHOOSE c \in SlotOf(companions, student_id, 2) : TRUE).qr_data>>
    ELSE <<>>

\* UNIQUE (qr_data) of companions: the token is held by another row.
QrDataTaken(table, student_id, n, qr_data) ==
    \E c \in table : /\ c.qr_data = qr_data
                     /\ ~(c.student_id = student_id /\ c.companion_number = n)

\* Faulty variant: a plain INSERT into a table without UNIQUE(student_id,
\* companion_number).
upsert_companion_insert(table, id, student_id, n, qr_data) ==
    table \cup {CompanionRow(id, student_id, n, qr_data, "pending")}

\* Faulty variant: ON CONFLICT DO NOTHING.
upsert_companion_do_nothing(table, id, student_id, n, qr_data) ==
    IF SlotOf(table, student_id, n) = {}
    THEN table \cup {CompanionRow(id, student_id, n, qr_data, "pending")}
    ELSE table

\* INSERT ... ON CONFLICT (student_id, companion_number) DO UPDATE (lines 34-43).
upsert_companion(table, id, student_id, n, qr_data) ==
    IF SlotOf(table, student_id, n) = {}
    THEN table \cup {CompanionRow(id, student_id, n, qr_data, "pending")}
    ELSE {IF c \in SlotOf(table, student_id, n)
          THEN [c EXCEPT !.qr_data = qr_data, !.access_status = "pending"]
          ELSE c : c \in table}

\* The invitation sender's lookup (send_companion_invitations.py 115, 331).
issuer_get_companion_qr_codes(q, student_id) ==
    /\ issuer[q].pc = "idle"
    /\ issuer' = [issuer EXCEPT ![q] =
          IF get_companion_qr_codes(student_id) # <<>>
          THEN [IssuerIdle EXCEPT !.pc = "have", !.student_id = student_id,
                                  !.qr_codes = get_companion_qr_codes(student_id)]
          ELSE [IssuerIdle EXCEPT !.pc = "create", !.student_id = student_id]]
    /\ UNCHANGED <<students, companions, companions_seq, uuid_seq, scan, clock, job_vars, batch, mail>>

\* regenerate_companion_qr_codes, lines 106-109: the DELETE and its commit.
regenerate_delete(q, student_id) ==
    /\ issuer[q].pc = "idle"
    /\ companions' = companions \ CompanionsOf(companions, student_id)
    /\ issuer' = [issuer EXCEPT ![q] =
          [IssuerIdle EXCEPT
              !.pc = "create", !.student_id = student_id,
              !.replaced = {c.qr_data : c \in CompanionsOf(companions, student_id)}]]
    /\ UNCHANGED <<students, companions_seq, uuid_seq, scan, clock, job_vars, batch, mail>>

\* create_companion_qr_codes: one transaction of two upserts. A token held by
\* another row makes the statement raise and the transaction roll back; the
\* sequence values drawn so far stay drawn.
create_companion_qr_codes(q) ==
    LET sid == issuer[q].student_id
        qr1 == generate_unique_qr_data(uuid_seq + 1)
        qr2 == generate_unique_qr_data(uuid_seq + 2)
        after1 == upsert_companion(companions, companions_seq + 1, sid, 1, qr1)
        after2 == upsert_companion(after1, companions_seq + 2, sid, 2, qr2)
    IN  /\ issuer[q].pc = "create"
        /\ uuid_seq + 2 <= MaxUuid
        /\ companions_seq + 2 <= MaxUuid
        /\ IF QrDataTaken(companions, sid, 1, qr1)
           THEN /\ companions_seq' = companions_seq + 1
                /\ uuid_seq' = uuid_seq + 1
                /\ issuer' = [issuer EXCEPT ![q].pc = "failed"]
                /\ UNCHANGED companions
           ELSE IF QrDataTaken(after1, sid, 2, qr2)
           THEN /\ companions_seq' = companions_seq + 2
                /\ uuid_seq' = uuid_seq + 2
                /\ issuer' = [issuer EXCEPT ![q].pc = "failed"]
                /\ UNCHANGED companions
           ELSE /\ companions_seq' = companions_seq + 2
                /\ uuid_seq' = uuid_seq + 2
                /\ companions' = after2
                /\ issuer' = [issuer EXCEPT ![q].pc = "have",
                                            ![q].qr_codes = <<qr1, qr2>>]
        /\ UNCHANGED <<students, scan, clock, job_vars, batch, mail>>

\* The caller goes on with the tokens it holds, or with the exception.
issuer_return(q) ==
    /\ issuer[q].pc \in {"have", "failed", "sent"}
    /\ issuer' = [issuer EXCEPT ![q] = IssuerIdle]
    /\ UNCHANGED <<students, companions, companions_seq, uuid_seq, scan, clock, job_vars, batch, mail>>

\* ------------------------------------------------------ companion invitations
\* The senders of send_companion_invitations.py run in threadpool threads of
\* the HTTP server (main.py 175-219), each with its own connections.

\* The WHERE clause of the bulk sender (lines 55-65; email is NOT NULL).
needs_invitation(s) ==
    /\ students[s].payment_confirmed
    /\ \A c \in CompanionsOf(companions, s) : c.pdf_sent_at = NULL

\* send_companion_invitations, lines 110-117, for a student its SELECT
\* returned: the lookup of the student's tokens.
send_companion_invitations(q, s) ==
    /\ needs_invitation(s)
    /\ issuer_get_companion_qr_codes(q, s)

\* send_companion_invitations_to_student, lines 319-333: the student of
\* the cedula, then the same lookup.
send_companion_invitations_to_student(q, cedula) ==
    \E s \in Students :
        /\ students[s].cedula = cedula
        /\ issuer_get_companion_qr_codes(q, s)

\* UPDATE companions SET pdf_sent_at = %s WHERE student_id = %s (lines
\* 264-268 and 490).
update_pdf_sent_at(table, student_id, now) ==
    {IF c.student_id = student_id THEN [c EXCEPT !.pdf_sent_at = now] ELSE c :
        c \in table}

\* Lines 119-268 and 335-491: the PDFs are built from the tokens the sender
\* holds, sendmail goes through and pdf_sent_at is written. The resend
\* commits at once (line 491); the bulk sender commits after its last
\* student (line 276), which only delays what other senders see.
sendmail_invitation(q) ==
    /\ issuer[q].pc = "have"
    /\ companions' = update_pdf_sent_at(companions, issuer[q].student_id, Now)
    /\ issuer' = [issuer EXCEPT ![q].pc = "sent"]
    /\ UNCHANGED <<students, companions_seq, uuid_seq, scan, clock, job_vars, batch, mail>>

\* An exception and what str() makes of it.
NoException == [type |-> "", message |-> ""]

\* Faulty variant: the name of the exception class instead of its message.
str_type(e) == e.type

str(e) == e.message

\* ------------------------------------------------------ batch QR generation
\* Faulty variant: a SELECT that does not look at payment_confirmed.
Eligible_unpaid(row) == row.qr_data = NoQrData \/ row.qr_image_b64 = NoImage

\* WHERE payment_confirmed=TRUE AND (qr_data IS NULL OR qr_image_b64 IS NULL).
Eligible(row) ==
    /\ row.payment_confirmed
    /\ row.qr_data = NoQrData \/ row.qr_image_b64 = NoImage

\* The ids 1..n for which keep holds, in ascending order.
RECURSIVE Ascending(_, _)
Ascending(n, keep) ==
    IF n = 0 THEN <<>>
    ELSE IF n \in keep THEN Append(Ascending(n - 1, keep), n)
    ELSE Ascending(n - 1, keep)

\* cur.fetchall() of the SELECT of lines 156-160.
select_missing ==
    Ascending(Len(students), {s \in DOMAIN students : Eligible(students[s])})

Min(a, b) == IF a <= b THEN a ELSE b

\* Faulty variant: a slice that overlaps the next chunk by one student.
slice_overlapping(list, i, batch_size) ==
    SubSeq(list, i + 1, Min(i + batch_size + 1, Len(list)))

\* students[i:i + self.batch_size] (line 79).
slice(list, i, batch_size) == SubSeq(list, i + 1, Min(i + batch_size, Len(list)))

\* The chunks of range(0, len(students), batch_size) from offset i on.
RECURSIVE Chunks(_, _, _)
Chunks(list, i, batch_size) ==
    IF i >= Len(list) THEN <<>>
    ELSE <<slice(list, i, batch_size)>> \o Chunks(list, i + batch_size, batch_size)

\* Faulty variant: a unit that fails is given a credential all the same.
valid_results_all(chunk, ok) ==
    [k \in 1..Len(chunk) |->
        [student_id |-> chunk[k],
         qr_data |-> student_qr_data(uuid_seq + k),
         qr_image_b64 |-> qr_image_b64(student_qr_data(uuid_seq + k)),
         qr_generated_at |-> Now]]

\* Lines 85-92: generate_single_qr for each student of the chunk; the units
\* in ok return a credential with a new uuid4, the others None.
valid_results(chunk, ok) ==
    LET units == SelectSeq(chunk, LAMBDA s : s \in ok)
    IN  [k \in 1..Len(units) |->
            [student_id |-> units[k],
             qr_data |-> student_qr_data(uuid_seq + k),
             qr_image_b64 |-> qr_image_b64(student_qr_data(uuid_seq + k)),
             qr_generated_at |-> Now]]

\* Lines 153-167: the SELECT and the return when nobody is eligible.
generate_missing_qrs_batch(g, batch_size) ==
    /\ batch[g].pc = "idle"
    /\ batch' = [batch EXCEPT ![g] =
          IF select_missing = <<>>
          THEN [BatchIdle EXCEPT
                  !.pc = "done", !.batch_size = batch_size,
                  !.result = [NoBatchResult EXCEPT !.success = TRUE]]
          ELSE [BatchIdle EXCEPT
                  !.pc = "generate", !.batch_size = batch_size,
                  !.students = select_missing]]
    /\ UNCHANGED <<students, companions, companions_seq, uuid_seq, scan, issuer, clock, job_vars, mail>>

\* One turn of the loop of generate_batch_async (lines 78-99).
generate_batch_async(g, ok) ==
    /\ batch[g].pc = "generate"
    /\ LET chunk == slice(batch[g].students, batch[g].i, batch[g].batch_size)
           units == {chunk[k] : k \in 1..Len(chunk)}
           results == valid_results(chunk, ok)
       IN  /\ ok \subseteq units
           /\ uuid_seq + Len(results) <= MaxUuid
           /\ uuid_seq' = uuid_seq + Len(results)
           /\ batch' = [batch EXCEPT
                 ![g].chunks = Append(@, chunk),
                 ![g].failed = @ \cup (units \ ok),
                 ![g].all_qr_data = @ \o results,
                 ![g].i = @ + batch[g].batch_size,
                 ![g].pc = IF batch[g].i + batch[g].batch_size >= Len(batch[g].students)
                           THEN "update" ELSE "generate"]
    /\ UNCHANGED <<students, companions, companions_seq, scan, issuer, clock, job_vars, mail>>

\* qr_data TEXT UNIQUE of students: the token is held by another row.
StudentQrDataTaken(table, id, qr_data) ==
    \E s \in DOMAIN table : s # id /\ table[s].qr_data = qr_data

\* What psycopg2 raises: the violation of UNIQUE (qr_data), and a failure of
\* the connection.
UniqueViolation ==
    [type |-> "UniqueViolation",
     message |-> "duplicate key value violates unique constraint"]

OperationalError ==
    [type |-> "OperationalError", message |-> "server closed the connection"]

\* The UPDATEs of lines 126-138 from the k-th on, inside one transaction:
\* the table as the transaction sees it when they are done, or when one of
\* them raises, and how many of them were executed. The fail_at-th statement
\* finds the connection lost.
RECURSIVE bulk_update(_, _, _, _)
bulk_update(table, qr_data_list, k, fail_at) ==
    IF k > Len(qr_data_list)
    THEN [raised |-> FALSE, exc |-> NoException, table |-> table, executed |-> k - 1]
    ELSE LET r == qr_data_list[k]
         IN  IF k = fail_at
             THEN [raised |-> TRUE, exc |-> OperationalError, table |-> table,
                   executed |-> k - 1]
             ELSE IF r.student_id \in DOMAIN table
                     /\ StudentQrDataTaken(table, r.student_id, r.qr_data)
             THEN [raised |-> TRUE, exc |-> UniqueViolation, table |-> table,
                   executed |-> k - 1]
             ELSE bulk_update(
                    IF r.student_id \in DOMAIN table
                    THEN [table EXCEPT ![r.student_id].qr_data = r.qr_data,
                                       ![r.student_id].qr_generated_at = r.qr_generated_at,
                                       ![r.student_id].qr_image_b64 = r.qr_image_b64]
                    ELSE table,
                    qr_data_list, k + 1, fail_at)

\* Faulty variant: a connection in autocommit, where what the statements
\* before the failure wrote stays written.
rollback_autocommit(committed, working) == working

\* conn.rollback() (line 144): the store is as it was committed.
rollback(committed, working) == committed

\* Lines 175-185: bulk_update_database and the result of the run; fail_at
\* is the statement at which the connection is lost, 0 for none.
bulk_update_database(g, fail_at) ==
    /\ batch[g].pc = "update"
    /\ fail_at \in 0..Len(batch[g].all_qr_data)
    /\ LET done == bulk_update(students, batch[g].all_qr_data, 1, fail_at)
       IN  IF done.raised
           THEN /\ students' = rollback(students, done.table)
                /\ batch' = [batch EXCEPT
                      ![g].pc = "done",
                      ![g].executed = done.executed,
                      ![g].result = [NoBatchResult EXCEPT !.error = str(done.exc)]]
           ELSE /\ students' = done.table
                /\ batch' = [batch EXCEPT
                      ![g].pc = "done",
                      ![g].executed = done.executed,
                      ![g].result = [success |-> TRUE,
                                     generated_count |-> Len(batch[g].all_qr_data),
                                     total_students |-> Len(batch[g].students),
                                     has_total |-> TRUE, error |-> ""]]
    /\ UNCHANGED <<companions, companions_seq, uuid_seq, scan, issuer, clock, job_vars, mail>>

\* The caller has the result; the generator is free for the next run.
generate_missing_qrs_async_return(g) ==
    /\ batch[g].pc = "done"
    /\ batch' = [batch EXCEPT ![g] = BatchIdle]
    /\ UNCHANGED <<students, companions, companions_seq, uuid_seq, scan, issuer, clock, job_vars, mail>>

\* uuid4 is random: nothing but chance keeps it from returning again the
\* values it has returned.
uuid4_repeats ==
    /\ uuid_seq > 0
    /\ uuid_seq' = 0
    /\ UNCHANGED <<students, companions, companions_seq, scan, issuer, clock, job_vars, batch, mail>>

\* ---------------------------------------------------------- delivery queue
\* The coroutines of email_queue.py run on one event loop: a coroutine is
\* left only where it awaits something that suspends it (asyncio.wait_for,
\* asyncio.sleep). smtplib and psycopg2 block, and put() on an unbounded
\* Queue does not suspend, so _process_batch runs from its first to its last
\* line without the driver running in between.

\* What one call of _send_single_email meets: sendmail and the UPDATE of
\* qr_sent_at go through and it returns True, or one of them raises, nothing
\* is written and it returns False.
Outcomes == {"sent", "failed"}

\* SELECT ... WHERE qr_image_b64 IS NOT NULL AND email IS NOT NULL AND
\* qr_sent_at IS NULL ORDER BY id (email is NOT NULL in the schema).
load_pending_emails ==
    Ascending(Len(students),
              {s \in DOMAIN students : /\ students[s].qr_image_b64 # NoImage
                                        /\ students[s].qr_sent_at = NULL})

\* Lines 219-224 and 232-236: one more retry of the job of student s.
count_retry(st, s) ==
    LET n == st.m.retry_count[s] + 1
    IN  IF n < max_retries
        THEN [st EXCEPT !.m.retry_count[s] = n,
                        !.m.failed_queue = Append(@, s)]
        ELSE [st EXCEPT !.m.retry_count[s] = n,
                        !.m.failed_count = @ + 1,
                        !.m.failed_for[s] = @ + 1]

\* Faulty variant: the UPDATE of qr_sent_at before sendmail.
send_single_email_record_first(st, s, outcome, now) ==
    [st EXCEPT !.table[s].qr_sent_at = now,
               !.m.sent_count = IF outcome = "sent" THEN @ + 1 ELSE @,
               !.m.attempts[s] = Append(@, outcome),
               !.m.marked[s] = @ + 1,
               !.m.sent_for[s] = IF outcome = "sent" THEN @ + 1 ELSE @]

\* _send_single_email (lines 177-200): it returns True exactly when the
\* outcome is "sent".
send_single_email(st, s, outcome, now) ==
    IF outcome = "sent"
    THEN [st EXCEPT !.table[s].qr_sent_at = now,
                    !.m.sent_count = @ + 1,
                    !.m.attempts[s] = Append(@, outcome),
                    !.m.marked[s] = @ + 1,
                    !.m.sent_for[s] = @ + 1]
    ELSE [st EXCEPT !.m.attempts[s] = Append(@, outcome)]

\* The loop of lines 216-224 from the k-th job of the batch on.
RECURSIVE send_each(_, _, _, _, _)
send_each(st, jobs, outcome, k, now) ==
    IF k > Len(jobs) THEN st
    ELSE LET tried == send_single_email(st, jobs[k], outcome[k], now)
         IN  send_each(IF outcome[k] = "sent" THEN tried ELSE count_retry(tried, jobs[k]),
                       jobs, outcome, k + 1, now)

\* The handler of lines 228-236, from the k-th job of the batch on.
RECURSIVE requeue_each(_, _, _)
requeue_each(st, jobs, k) ==
    IF k > Len(jobs) THEN st
    ELSE requeue_each(count_retry(st, jobs[k]), jobs, k + 1)

\* _process_batch (lines 202-236): connect_ok says whether lines 209-213
\* go through, quit_ok whether server.quit() of line 226 does.
process_batch_result(st, jobs, connect_ok, outcome, quit_ok, now) ==
    IF ~connect_ok THEN requeue_each(st, jobs, 1)
    ELSE LET sent == send_each(st, jobs, outcome, 1, now)
         IN  IF quit_ok THEN sent ELSE requeue_each(sent, jobs, 1)

\* interval of line 243, 60.0 / rate_limit_per_minute * batch_size: 30
\* divides 60, so the quotient is exact.
interval(batch_size) == (60 \div rate_limit_per_minute) * batch_size

\* send_qr_emails_batch, lines 287-308: the queue is loaded, and unless it
\* is empty the worker task is created and the monitor loop entered. Nothing
\* suspends the driver before the first sleep of line 308, so the first
\* test of the while finds the queue as loaded and the failed queue empty.
send_qr_emails_batch(r, smtp_config) ==
    /\ mail[r].pc = "idle"
    /\ mail' = [mail EXCEPT ![r] =
          IF load_pending_emails = <<>>
          THEN [mail[r] EXCEPT !.pc = "returned", !.smtp_config = smtp_config,
                               !.result = [NoMailResult EXCEPT !.success = TRUE]]
          ELSE [mail[r] EXCEPT !.pc = "sleep", !.smtp_config = smtp_config,
                               !.queue = load_pending_emails,
                               !.total_emails = Len(load_pending_emails),
                               !.worker = "created"]]
    /\ UNCHANGED <<verify_vars, clock, job_vars, batch>>

\* start_worker, line 240: _validate_smtp_config raises ValueError in the
\* task, which ends; nobody awaits the task.
start_worker(r) ==
    /\ mail[r].worker = "created"
    /\ mail' = [mail EXCEPT ![r].worker = IF mail[r].smtp_config THEN "collect" ELSE "dead"]
    /\ UNCHANGED <<verify_vars, clock, job_vars, batch>>

\* Lines 249-252: one more job for the batch, at most batch_size of them.
worker_get(r) ==
    /\ mail[r].worker = "collect"
    /\ mail[r].queue # <<>>
    /\ Len(mail[r].batch) < MaxEmailBatch
    /\ mail' = [mail EXCEPT ![r].batch = Append(@, Head(mail[r].queue)),
                            ![r].queue = Tail(@)]
    /\ UNCHANGED <<verify_vars, clock, job_vars, batch>>

\* Faulty variant: a worker that waits until its batch is full.
collected_full(batch_, queue) == Len(batch_) = MaxEmailBatch

\* Lines 249-254: the for loop ends after batch_size jobs, or when the
\* queue stayed empty for the second of the wait_for.
collected(batch_, queue) == Len(batch_) = MaxEmailBatch \/ queue = <<>>

\* Faulty variant: the sleep of line 261 after every batch.
rate_limited_always(batch_) == TRUE

\* The test of line 260.
rate_limited(batch_) == Len(batch_) = MaxEmailBatch

\* Lines 256-261: the batch collected is processed; after a full batch the
\* worker sleeps for interval seconds, after a partial one it collects again.
worker_process_batch(r, connect_ok, outcome, quit_ok) ==
    /\ mail[r].worker = "collect"
    /\ mail[r].batch # <<>>
    /\ collected(mail[r].batch, mail[r].queue)
    /\ outcome \in [1..Len(mail[r].batch) -> Outcomes]
    /\ LET st == process_batch_result([m |-> mail[r], table |-> students], mail[r].batch,
                                       connect_ok, outcome, quit_ok, Now)
       IN  /\ mail' = [mail EXCEPT ![r] =
                  IF rate_limited(mail[r].batch)
                  THEN [st.m EXCEPT !.batch = <<>>, !.worker = "pause",
                                    !.sleep = interval(MaxEmailBatch)]
                  ELSE [st.m EXCEPT !.batch = <<>>]]
           /\ students' = st.table
    /\ UNCHANGED <<companions, companions_seq, uuid_seq, scan, issuer, clock,
                   job_vars, batch>>

\* Lines 262-264: no job came within the second; the worker sleeps for five.
worker_no_jobs(r) ==
    /\ mail[r].worker = "collect"
    /\ mail[r].batch = <<>>
    /\ mail[r].queue = <<>>
    /\ mail' = [mail EXCEPT ![r].worker = "wait", ![r].sleep = 5]
    /\ UNCHANGED <<verify_vars, clock, job_vars, batch>>

\* The sleep of line 261 or 264 ends and the while loop goes round.
worker_wakes(r) ==
    /\ mail[r].worker \in {"pause", "wait"}
    /\ mail' = [mail EXCEPT ![r].worker = "collect", ![r].sleep = 0]
    /\ UNCHANGED <<verify_vars, clock, job_vars, batch>>

\* Faulty variant: a driver that returns and leaves the worker running.
cancel_never(worker) == worker

\* worker_task.cancel() (line 316): CancelledError is thrown into the
\* worker where it is suspended, and no handler of the worker catches it.
cancel(worker) ==
    IF worker \in {"created", "collect", "pause", "wait"} THEN "cancelled" ELSE worker

\* Lines 316-325.
mail_return(m) ==
    [m EXCEPT !.pc = "returned",
              !.worker = cancel(m.worker),
              !.result = [success |-> TRUE, has_counts |-> TRUE,
                          total_emails |-> m.total_emails,
                          sent_count |-> m.sent_count,
                          failed_count |-> m.failed_count]]

\* Lines 300-306: the test of the while, and of the failed queue.
monitor_check(r) ==
    /\ mail[r].pc = "monitor"
    /\ mail' = [mail EXCEPT ![r] =
               IF mail[r].queue = <<>> /\ mail[r].failed_queue = <<>>
               THEN mail_return(mail[r])
               ELSE IF mail[r].failed_queue # <<>>
               THEN [mail[r] EXCEPT !.pc = "retry"]
               ELSE [mail[r] EXCEPT !.pc = "sleep"]]
    /\ UNCHANGED <<verify_vars, clock, job_vars, batch>>

\* process_retry_queue (lines 266-273): one turn of its loop.
process_retry_queue(r) ==
    /\ mail[r].pc = "retry"
    /\ mail' = [mail EXCEPT ![r] =
               IF mail[r].failed_queue = <<>>
               THEN [mail[r] EXCEPT !.pc = "sleep"]
               ELSE [mail[r] EXCEPT !.queue = Append(@, Head(mail[r].failed_queue)),
                                    !.failed_queue = Tail(@)]]
    /\ UNCHANGED <<verify_vars, clock, job_vars, batch>>

\* Lines 308-313: asyncio.sleep(10), then the test of the ceiling; elapsed
\* counts the sleeps, TimeoutPolls of which make the 1800 seconds.
monitor_sleep(r) ==
    /\ mail[r].pc = "sleep"
    /\ mail' = [mail EXCEPT ![r] =
               IF mail[r].elapsed + 1 > TimeoutPolls
               THEN mail_return([mail[r] EXCEPT !.elapsed = @ + 1])
               ELSE [mail[r] EXCEPT !.elapsed = @ + 1, !.pc = "monitor"]]
    /\ UNCHANGED <<verify_vars, clock, job_vars, batch>>

\* -------------------------------------------------------------- job manager
JobTypes == {"sync_students", "generate_qrs", "send_emails", "full_process",
             "send_companion_invitations"}
JobIds == 1..MaxJobs
NoResult == [success |-> FALSE, set |-> FALSE]
HandlerResults == {[success |-> TRUE, set |-> TRUE], [success |-> FALSE, set |-> TRUE]}
NoCall == [op |-> "none", job_id |-> 0, ret |-> FALSE, turn |-> 0,
           max_age_hours |-> 0, removed |-> 0]

\* The record of a call: turn alternates, so that two calls in a row differ.
Call(op, job_id, ret) ==
    [op |-> op, job_id |-> job_id, ret |-> ret, turn |-> 1 - last_call.turn,
     max_age_hours |-> 0, removed |-> 0]

\* Job(...) as create_job builds it (lines 59-65).
Job(job_id, job_type, now) ==
    [id |-> job_id, job_type |-> job_type, status |-> "pending",
     created_at |-> now, started_at |-> NULL, completed_at |-> NULL,
     progress |-> 0, error_message |-> "", result |-> NoResult]

\* What a handler may raise.
HandlerExceptions == {[type |-> "RuntimeError", message |-> "connection lost"]}

\* results = {} of _handle_full_process (line 182).
NoResults ==
    [sync |-> NoResult, qr_generation |-> NoResult, email_sending |-> NoResult,
     summary |-> FALSE, error |-> ""]

\* The coroutine asyncio.create_task makes of _execute_job(job_id).
Task(job_id) ==
    [job_id |-> job_id, pc |-> "scheduled", results |-> NoResults,
     ret |-> NoResult, exc |-> NoException]

FullProcessSteps == <<"sync", "qr_generation", "email_sending">>

Awaiting == {"handler", "sync", "qr_generation", "email_sending"}

NoStatus == [found |-> FALSE]

InitJobs ==
    /\ active_jobs = <<>>
    /\ next_job = 0
    /\ tasks = <<>>
    /\ handler_calls = [j \in JobIds |-> 0]
    /\ last_call = NoCall
    /\ status_seen = [j \in JobIds |-> NoStatus]

\* create_job: uuid4 gives an id no job has had.
create_job(job_type) ==
    /\ next_job < MaxJobs
    /\ next_job' = next_job + 1
    /\ UNCHANGED clock
    /\ active_jobs' = active_jobs @@ (next_job + 1 :> Job(next_job + 1, job_type, Now))
    /\ last_call' = Call("create_job", next_job + 1, TRUE)
    /\ UNCHANGED <<tasks, handler_calls, status_seen, verify_vars, batch, mail>>

\* Faulty variant: start_job without the test of lines 78-80.
start_job_accepts_any(job_id) == job_id \in DOMAIN active_jobs

\* The guard of start_job (lines 73-80): whether the call schedules.
start_job_accepts(job_id) ==
    /\ job_id \in DOMAIN active_jobs
    /\ active_jobs[job_id].status = "pending"

\* start_job: asyncio.create_task puts a new _execute_job at the end of the
\* loop's ready queue and the call returns.
start_job(job_id) ==
    /\ IF start_job_accepts(job_id)
       THEN /\ Len(tasks) < MaxTasks
            /\ tasks' = Append(tasks, Task(job_id))
            /\ last_call' = Call("start_job", job_id, TRUE)
       ELSE /\ UNCHANGED tasks
            /\ last_call' = Call("start_job", job_id, FALSE)
    /\ UNCHANGED <<active_jobs, next_job, handler_calls, status_seen, clock, verify_vars, batch, mail>>

\* The first statement of each handler (lines 120, 135, 149, 169, 186).
HandlerFirstProgress(job_type) == IF job_type = "full_process" THEN 5 ELSE 10

\* A write through the task's reference to its Job: seen in active_jobs
\* while the job is still in the table.
WriteJob(job_id, job) ==
    IF job_id \in DOMAIN active_jobs
    THEN [active_jobs EXCEPT ![job_id] = job]
    ELSE active_jobs

\* The loop starts its tasks in the order they were created.
loop_ready(t) ==
    /\ t \in DOMAIN tasks
    /\ tasks[t].pc = "scheduled"
    /\ \A k \in 1..(t - 1) : tasks[k].pc # "scheduled"

\* _execute_job up to the handler's first suspension (lines 88-100). The
\* lookup of line 88 is outside the try: a job no longer in the table ends
\* the task with KeyError.
execute_job_begin(t) ==
    /\ loop_ready(t)
    /\ LET j == tasks[t].job_id
       IN  IF j \in DOMAIN active_jobs
           THEN /\ active_jobs' = [active_jobs EXCEPT
                      ![j].status = "running",
                      ![j].started_at = Now,
                      ![j].progress = HandlerFirstProgress(active_jobs[j].job_type)]
                /\ handler_calls' = [handler_calls EXCEPT ![j] = @ + 1]
                /\ tasks' = [tasks EXCEPT ![t].pc =
                      IF active_jobs[j].job_type = "full_process"
                      THEN FullProcessSteps[1] ELSE "handler"]
           ELSE /\ tasks' = [tasks EXCEPT ![t].pc = "crashed"]
                /\ UNCHANGED <<active_jobs, handler_calls>>
    /\ UNCHANGED clock
    /\ UNCHANGED <<next_job, last_call, status_seen, verify_vars, batch, mail>>

\* Lines 102-105 of _execute_job, after the handler has returned result.
Completed(job, result, now) ==
    [job EXCEPT !.status = "completed", !.completed_at = now,
                !.result = result, !.progress = 100]

\* Lines 110-112 of _execute_job, after the handler has raised e.
Failed(job, e, now) ==
    [job EXCEPT !.status = "failed", !.completed_at = now,
                !.error_message = str(e)]

\* A handler other than _handle_full_process returns what its call returned
\* (lines 124-129, 138-143, 158-163, 171-178), then lines 102-105.
execute_job_completed(t, result) ==
    /\ t \in DOMAIN tasks
    /\ tasks[t].pc = "handler"
    /\ LET job_id == tasks[t].job_id
       IN  active_jobs' =
               WriteJob(job_id, Completed(active_jobs[job_id], result, Now))
    /\ UNCHANGED clock
    /\ tasks' = [tasks EXCEPT ![t].pc = "returned", ![t].ret = result]
    /\ UNCHANGED <<next_job, handler_calls, last_call, status_seen, verify_vars, batch, mail>>

\* The call a handler awaits raises e: _handle_full_process notes it in its
\* results and raises again (lines 237-239); then lines 109-112.
execute_job_failed(t, e) ==
    /\ t \in DOMAIN tasks
    /\ tasks[t].pc \in Awaiting
    /\ LET job_id == tasks[t].job_id
       IN  active_jobs' =
               WriteJob(job_id, Failed(active_jobs[job_id], e, Now))
    /\ UNCHANGED clock
    /\ tasks' = [tasks EXCEPT
          ![t].pc = "raised",
          ![t].exc = e,
          ![t].results = IF tasks[t].pc = "handler" THEN @
                         ELSE [@ EXCEPT !.error = str(e)]]
    /\ UNCHANGED <<next_job, handler_calls, last_call, status_seen, verify_vars, batch, mail>>

\* if not sync_result.get('success') (lines 194, 205, 216).
step_reports_failure(result) == ~result.success

\* raise Exception(f"Sync failed: ...") (lines 195, 206, 217).
StepFailed(step) ==
    [type |-> "Exception",
     message |-> IF step = "sync" THEN "Sync failed"
                 ELSE IF step = "qr_generation" THEN "QR generation failed"
                 ELSE "Email sending failed"]

\* job.progress at the start of the step after step (lines 198, 209, 219).
ProgressAfter(step) ==
    IF step = "sync" THEN 35 ELSE IF step = "qr_generation" THEN 65 ELSE 100

NextStep(step) ==
    IF step = "sync" THEN FullProcessSteps[2] ELSE FullProcessSteps[3]

\* _handle_full_process: the call of the current step returns result
\* (lines 191-235); a reported failure is raised and ends in lines 109-112,
\* the return after the last step ends in lines 102-105.
full_process_step(t, result) ==
    /\ t \in DOMAIN tasks
    /\ tasks[t].pc \in Awaiting \ {"handler"}
    /\ LET step == tasks[t].pc
           j == tasks[t].job_id
           results == [tasks[t].results EXCEPT ![step] = result]
           e == StepFailed(step)
           final == [results EXCEPT !.summary = TRUE]
           fail(job) == Failed(job, e, Now)
           advance(job) == [job EXCEPT !.progress = ProgressAfter(step)]
           complete(job) == Completed(job, final, Now)
       IN  IF step_reports_failure(result)
           THEN /\ active_jobs' = WriteJob(j, fail(active_jobs[j]))
                /\ tasks' = [tasks EXCEPT
                      ![t].pc = "raised", ![t].exc = e,
                      ![t].results = [results EXCEPT !.error = str(e)]]
           ELSE IF step = FullProcessSteps[3]
           THEN /\ active_jobs' = WriteJob(j, complete(active_jobs[j]))
                /\ tasks' = [tasks EXCEPT
                      ![t].pc = "returned", ![t].results = final, ![t].ret = final]
           ELSE /\ active_jobs' = WriteJob(j, advance(active_jobs[j]))
                /\ tasks' = [tasks EXCEPT ![t].pc = NextStep(step), ![t].results = results]
    /\ UNCHANGED clock
    /\ UNCHANGED <<next_job, handler_calls, last_call, status_seen, verify_vars, batch, mail>>

\* get_job_status: None for a job not in the table, else its fields.
get_job_status(job_id) ==
    /\ status_seen' = [status_seen EXCEPT ![job_id] =
          IF job_id \in DOMAIN active_jobs
          THEN [found |-> TRUE,
                status |-> active_jobs[job_id].status,
                progress |-> active_jobs[job_id].progress,
                error_message |-> active_jobs[job_id].error_message,
                result |-> active_jobs[job_id].result]
          ELSE NoStatus]
    /\ UNCHANGED <<active_jobs, next_job, tasks, handler_calls, last_call, clock, verify_vars, batch, mail>>

\* Faulty variant: cancel_job that also cancels a running job.
cancel_job_accepts_running(job_id) ==
    /\ job_id \in DOMAIN active_jobs
    /\ active_jobs[job_id].status \in {"pending", "running"}

\* The guard of cancel_job (lines 267-271).
cancel_job_accepts(job_id) ==
    /\ job_id \in DOMAIN active_jobs
    /\ active_jobs[job_id].status = "pending"

\* cancel_job, called from a threadpool thread of the HTTP server.
cancel_job(job_id) ==
    /\ IF cancel_job_accepts(job_id)
       THEN /\ active_jobs' = [active_jobs EXCEPT
                  ![job_id].status = "cancelled",
                  ![job_id].completed_at = Now]
            /\ last_call' = Call("cancel_job", job_id, TRUE)
       ELSE /\ UNCHANGED active_jobs
            /\ last_call' = Call("cancel_job", job_id, FALSE)
    /\ UNCHANGED <<next_job, tasks, handler_calls, status_seen, clock, verify_vars, batch, mail>>

MaxAgeHours == {0, 1}

\* Faulty variant: a cleanup that does not look at the status.
jobs_to_remove_any(max_age_hours) ==
    {j \in DOMAIN active_jobs :
        /\ active_jobs[j].completed_at # NULL
        /\ active_jobs[j].completed_at < Now - max_age_hours}

\* Lines 281-287: the jobs in a final status completed before the cutoff.
jobs_to_remove(max_age_hours) ==
    {j \in DOMAIN active_jobs :
        /\ active_jobs[j].status \in {"completed", "failed", "cancelled"}
        /\ active_jobs[j].completed_at # NULL
        /\ active_jobs[j].completed_at < Now - max_age_hours}

\* cleanup_completed_jobs: the clock counts hours.
cleanup_completed_jobs(max_age_hours) ==
    /\ active_jobs' = [j \in DOMAIN active_jobs \ jobs_to_remove(max_age_hours)
                          |-> active_jobs[j]]
    /\ last_call' = [Call("cleanup_completed_jobs", 0, TRUE) EXCEPT
          !.max_age_hours = max_age_hours,
          !.removed = Cardinality(jobs_to_remove(max_age_hours))]
    /\ UNCHANGED <<next_job, tasks, handler_calls, status_seen, clock, verify_vars, batch, mail>>

\* ---------------------------------------------------------- specifications
Init == InitStore /\ InitJobs

\* The gate: concurrent scans, the administrative resets, time.
Next ==
    \/ Tick
    \/ \E p \in Scanners, qr_data \in GatePayloads : api_verify_select_companion(p, qr_data)
    \/ \E p \in Scanners : api_verify_select_student(p)
    \/ \E p \in Scanners : api_verify_update_companion(p)
    \/ \E p \in Scanners : api_verify_update_student(p)
    \/ \E p \in Scanners : api_verify_return(p)
    \/ admin_reset_checkin
    \/ \E cedula \in Cedulas : admin_reset_checkin_cedula(cedula)

Spec == Init /\ [][Next]_vars

\* One scanner at the gate, presented with companion codes, while companion
\* credentials are issued.
NextIssue ==
    \/ \E u \in 3..MaxUuid : api_verify_select_companion(1, generate_unique_qr_data(u))
    \/ api_verify_select_student(1)
    \/ api_verify_update_companion(1)
    \/ api_verify_return(1)
    \/ admin_reset_checkin
    \/ \E cedula \in Cedulas : admin_reset_checkin_cedula(cedula)
    \/ \E q \in Issuers, s \in Students : issuer_get_companion_qr_codes(q, s)
    \/ \E q \in Issuers, s \in Students : regenerate_delete(q, s)
    \/ \E q \in Issuers : create_companion_qr_codes(q)
    \/ \E q \in Issuers : issuer_return(q)

SpecIssue == Init /\ [][NextIssue]_vars

\* Two invitation senders, each a bulk run or a resend, while time passes.
NextInvite ==
    \/ Tick
    \/ \E q \in Issuers, s \in Students : send_companion_invitations(q, s)
    \/ \E q \in Issuers, cedula \in Students : send_companion_invitations_to_student(q, cedula)
    \/ \E q \in Issuers : create_companion_qr_codes(q)
    \/ \E q \in Issuers : sendmail_invitation(q)
    \/ \E q \in Issuers : issuer_return(q)

SpecInvite == Init /\ [][NextInvite]_vars

\* The job manager alone.
InitJobManager ==
    /\ students = [s \in Students |-> StudentRow(s, "pending")]
    /\ companions = {}
    /\ companions_seq = 0
    /\ uuid_seq = 2
    /\ clock = 1
    /\ scan = [p \in Scanners |-> Idle]
    /\ issuer = [q \in Issuers |-> IssuerIdle]
    /\ batch = [g \in Generators |-> BatchIdle]
    /\ mail = [r \in Runs |-> MailIdle]
    /\ InitJobs

NextJobs ==
    \/ Tick
    \/ \E job_type \in JobTypes : create_job(job_type)
    \/ \E job_id \in JobIds : start_job(job_id)
    \/ \E t \in 1..MaxTasks : execute_job_begin(t)
    \/ \E t \in 1..MaxTasks, result \in HandlerResults : execute_job_completed(t, result)
    \/ \E t \in 1..MaxTasks, result \in HandlerResults : full_process_step(t, result)
    \/ \E t \in 1..MaxTasks, e \in HandlerExceptions : execute_job_failed(t, e)
    \/ \E job_id \in JobIds : cancel_job(job_id)
    \/ \E job_id \in JobIds : get_job_status(job_id)
    \/ \E max_age_hours \in MaxAgeHours : cleanup_completed_jobs(max_age_hours)

SpecJobs == InitJobManager /\ [][NextJobs]_vars

\* The event loop runs every task that is ready, and every call a handler
\* awaits returns or raises.
handler_resumes(t) ==
    \/ \E result \in HandlerResults : execute_job_completed(t, result)
    \/ \E result \in HandlerResults : full_process_step(t, result)
    \/ \E e \in HandlerExceptions : execute_job_failed(t, e)

SpecJobsFair ==
    /\ SpecJobs
    /\ \A t \in 1..MaxTasks : WF_vars(execute_job_begin(t))
    /\ \A t \in 1..MaxTasks : WF_vars(handler_resumes(t))

\* Batch generation over a store of up to MaxStudents students, the first
\* of which may hold a credential already or may not have paid.
NewStudent(s, kind) ==
    IF kind = "issued" THEN StudentRow(s, "pending")
    ELSE [StudentRow(s, "pending") EXCEPT
             !.payment_confirmed = (kind # "unpaid"),
             !.qr_data = NoQrData,
             !.qr_image_b64 = NoImage,
             !.qr_generated_at = NULL]

InitBatch ==
    /\ \E n \in 0..MaxStudents, kind \in {"missing", "issued", "unpaid"} :
          students = [s \in 1..n |-> NewStudent(s, IF s = 1 THEN kind ELSE "missing")]
    /\ companions = {}
    /\ companions_seq = 0
    /\ uuid_seq = 1
    /\ clock = 1
    /\ scan = [p \in Scanners |-> Idle]
    /\ issuer = [q \in Issuers |-> IssuerIdle]
    /\ batch = [g \in Generators |-> BatchIdle]
    /\ mail = [r \in Runs |-> MailIdle]
    /\ InitJobs

\* The runs of one generator, one after the other, over a store whose
\* connection holds.
NextBatch ==
    \/ \E batch_size \in 1..MaxBatchSize : generate_missing_qrs_batch(1, batch_size)
    \/ \E ok \in SUBSET (1..MaxStudents) : generate_batch_async(1, ok)
    \/ bulk_update_database(1, 0)
    \/ generate_missing_qrs_async_return(1)

SpecBatch == InitBatch /\ [][NextBatch]_vars

\* The same runs in chunks of MaxBatchSize, over a store whose connection
\* may be lost at any statement of the bulk update.
NextBatchLoss ==
    \/ generate_missing_qrs_batch(1, MaxBatchSize)
    \/ \E ok \in SUBSET (1..MaxStudents) : generate_batch_async(1, ok)
    \/ \E fail_at \in 0..MaxStudents : bulk_update_database(1, fail_at)
    \/ generate_missing_qrs_async_return(1)

SpecBatchLoss == InitBatch /\ [][NextBatchLoss]_vars

\* Every issuer of tokens at work on the store of two students, none of
\* them holding a credential yet, with a uuid4 that may repeat.
InitTokens ==
    /\ students = [s \in Students |-> NewStudent(s, "missing")]
    /\ companions = {}
    /\ companions_seq = 0
    /\ uuid_seq = 0
    /\ clock = 1
    /\ scan = [p \in Scanners |-> Idle]
    /\ issuer = [q \in Issuers |-> IssuerIdle]
    /\ batch = [g \in Generators |-> BatchIdle]
    /\ mail = [r \in Runs |-> MailIdle]
    /\ InitJobs

NextTokens ==
    \/ generate_missing_qrs_batch(1, MaxBatchSize)
    \/ \E ok \in SUBSET Students : generate_batch_async(1, ok)
    \/ bulk_update_database(1, 0)
    \/ generate_missing_qrs_async_return(1)
    \/ \E s \in Students : issuer_get_companion_qr_codes(1, s)
    \/ \E s \in Students : regenerate_delete(1, s)
    \/ create_companion_qr_codes(1)
    \/ issuer_return(1)
    \/ uuid4_repeats

SpecTokens == InitTokens /\ [][NextTokens]_vars

\* One delivery run over a store of up to MaxRecipients students with a
\* credential, the first of which may have been sent its code already, with
\* or without the SMTP settings in the environment.
InitMail ==
    /\ \E n \in 1..MaxRecipients, sent \in BOOLEAN :
          students = [s \in 1..n |->
                        IF s = 1 /\ sent
                        THEN [StudentRow(s, "pending") EXCEPT !.qr_sent_at = 1]
                        ELSE StudentRow(s, "pending")]
    /\ companions = {}
    /\ companions_seq = 0
    /\ uuid_seq = MaxRecipients
    /\ clock = 1
    /\ scan = [p \in Scanners |-> Idle]
    /\ issuer = [q \in Issuers |-> IssuerIdle]
    /\ batch = [g \in Generators |-> BatchIdle]
    /\ mail = [r \in Runs |-> MailIdle]
    /\ InitJobs

\* One run of send_qr_emails_batch.
NextMail ==
    \/ \E smtp_config \in BOOLEAN : send_qr_emails_batch(1, smtp_config)
    \/ start_worker(1)
    \/ worker_get(1)
    \/ \E connect_ok, quit_ok \in BOOLEAN :
          \E outcome \in [1..Len(mail[1].batch) -> Outcomes] :
             worker_process_batch(1, connect_ok, outcome, quit_ok)
    \/ worker_no_jobs(1)
    \/ worker_wakes(1)
    \/ monitor_check(1)
    \/ process_retry_queue(1)
    \/ monitor_sleep(1)

SpecMail == InitMail /\ [][NextMail]_vars

\* The event loop resumes the driver when what it awaits is done: the
\* sleep of ten seconds ends, and a get on a queue that is not empty returns.
driver_resumes(r) == monitor_check(r) \/ process_retry_queue(r) \/ monitor_sleep(r)

SpecMailFair == SpecMail /\ WF_vars(driver_resumes(1))

\* The event loop resumes the worker as well: a get returns when the queue
\* holds a job or the second has passed, and its sleeps end.
worker_resumes(r) ==
    \/ start_worker(r)
    \/ worker_get(r)
    \/ \E connect_ok, quit_ok \in BOOLEAN :
          \E outcome \in [1..Len(mail[r].batch) -> Outcomes] :
             worker_process_batch(r, connect_ok, outcome, quit_ok)
    \/ worker_no_jobs(r)
    \/ worker_wakes(r)

\* The worker is resumed whenever it can go on; the driver may take any
\* time over its steps.
SpecMailWorker == SpecMail /\ WF_vars(worker_resumes(1))

\* The runs of the SEND_EMAILS and FULL_PROCESS jobs that are running:
\* start_job makes one task per job and _handle_send_emails awaits its own
\* send_qr_emails_batch (job_manager.py 83, 156), so the runs interleave
\* at their awaits. SMTP sessions open and close here without error.
NextMailJobs ==
    \/ \E r \in Runs : send_qr_emails_batch(r, TRUE)
    \/ \E r \in Runs : start_worker(r)
    \/ \E r \in Runs : worker_get(r)
    \/ \E r \in Runs :
          \E outcome \in [1..Len(mail[r].batch) -> Outcomes] :
             worker_process_batch(r, TRUE, outcome, TRUE)
    \/ \E r \in Runs : worker_no_jobs(r)
    \/ \E r \in Runs : worker_wakes(r)
    \/ \E r \in Runs : monitor_check(r)
    \/ \E r \in Runs : process_retry_queue(r)
    \/ \E r \in Runs : monitor_sleep(r)

SpecMailJobs == InitMail /\ [][NextMailJobs]_vars

\* =================================================================== claims
\* What the store holds for the credential a scanner read, when it writes.
StoredStatus(p) ==
    IF scan[p].pc = "update_companion"
    THEN {c.access_status : c \in {d \in companions : d.id = scan[p].row.id}}
    ELSE {students[s].access_status : s \in {x \in Students : students[x].id = scan[p].row.id}}

Welcomed(p) ==
    /\ scan[p].pc \in {"update_companion", "update_student"}
    /\ scan'[p].pc = "done"
    /\ scan'[p].response.status = "ok"

\* C1: of the concurrent scans of one pending credential exactly one makes
\* the pending -> checked_in transition and is welcomed; the others find it
\* checked_in. Stated on a step: a scan is welcomed only by the step that
\* takes the credential from pending to checked_in.
C1_WelcomeOnlyFromPending ==
    [][\A p \in Scanners : Welcomed(p) => StoredStatus(p) = {"pending"}]_vars

NoCredential(qr_data) ==
    /\ \A c \in companions : c.qr_data # qr_data
    /\ \A s \in Students : students[s].qr_data # qr_data

InvalidCode == Response("error", 404, "none", NoRow)

\* C2: a scan of a token that matches no companion and no primary
\* credential answers "invalid code" (404) and writes nothing: each of its
\* steps leaves both tables as they are, and it ends with that answer.
C2_UnknownTokenInvalidNoWrite ==
    [][\A p \in Scanners :
          ( /\ scan'[p] # scan[p]
            /\ scan[p].pc \in {"idle", "select_student"}
            /\ scan'[p].qr_data # NoQrData
            /\ NoCredential(scan'[p].qr_data) )
          => /\ students' = students
             /\ companions' = companions
             /\ \/ scan[p].pc = "idle" /\ scan'[p].pc = "select_student"
                \/ /\ scan[p].pc = "select_student"
                   /\ scan'[p].pc = "done"
                   /\ scan'[p].response = InvalidCode]_vars

C2_Witness ==
    \E p \in Scanners :
        /\ scan[p].pc = "done"
        /\ scan[p].qr_data # NoQrData
        /\ NoCredential(scan[p].qr_data)
        /\ scan[p].response = InvalidCode

\* The welcome of a companion c: names of the owning student, slot of c.
CompanionWelcome(resp, c, now) ==
    /\ resp.status = "ok"
    /\ resp.type = "companion"
    /\ resp.subject.first_name = students[c.student_id].first_name
    /\ resp.subject.last_name = students[c.student_id].last_name
    /\ resp.subject.companion_number = c.companion_number
    /\ resp.subject.access_status = "checked_in"
    /\ resp.subject.checked_in_at = now

StudentWelcome(resp, s, now) ==
    /\ resp.status = "ok"
    /\ resp.type = "student"
    /\ resp.subject.first_name = students[s].first_name
    /\ resp.subject.last_name = students[s].last_name
    /\ resp.subject.access_status = "checked_in"
    /\ resp.subject.checked_in_at = now

\* C3: a scan of a token whose credential is pending goes on to the write;
\* the write sets exactly that credential to checked_in with the time of
\* the write, changes no other row of either table, and answers the welcome
\* with the student's names and, for a companion, the stored slot.
C3_PendingScanChecksIn ==
    [][\A p \in Scanners :
          /\ \A c \in companions :
                ( /\ scan[p].pc = "idle" /\ scan'[p].pc # "idle"
                  /\ c.qr_data = scan'[p].qr_data /\ c.access_status = "pending" )
                => scan'[p].pc = "update_companion" /\ scan'[p].row.id = c.id
          /\ \A s \in Students :
                ( /\ scan[p].pc = "select_student" /\ scan'[p].pc # "select_student"
                  /\ \A c \in companions : c.qr_data # scan[p].qr_data
                  /\ students[s].qr_data = scan[p].qr_data
                  /\ students[s].access_status = "pending" )
                => scan'[p].pc = "update_student" /\ scan'[p].row.id = students[s].id
          /\ \A c \in companions :
                ( /\ scan[p].pc = "update_companion" /\ scan'[p].pc = "done"
                  /\ c.id = scan[p].row.id )
                => /\ clock # NULL
                   /\ companions' = (companions \ {c}) \cup
                         {[c EXCEPT !.access_status = "checked_in", !.checked_in_at = clock]}
                   /\ students' = students
                   /\ CompanionWelcome(scan'[p].response, c, clock)
          /\ \A s \in Students :
                ( /\ scan[p].pc = "update_student" /\ scan'[p].pc = "done"
                  /\ students[s].id = scan[p].row.id )
                => /\ clock # NULL
                   /\ students' = [students EXCEPT ![s].access_status = "checked_in",
                                                   ![s].checked_in_at = clock]
                   /\ companions' = companions
                   /\ StudentWelcome(scan'[p].response, s, clock)]_vars

\* A welcomed companion of student 1 while student 2 and the other
\* companion stand as they were.
C3_Witness ==
    \E p \in Scanners : \E c \in companions :
        /\ scan[p].pc = "done"
        /\ scan[p].response.status = "ok"
        /\ scan[p].response.type = "companion"
        /\ c.qr_data = scan[p].qr_data
        /\ c.access_status = "checked_in"
        /\ c.checked_in_at = scan[p].response.subject.checked_in_at
        /\ scan[p].response.subject.first_name = "Ana"
        /\ scan[p].response.subject.companion_number = c.companion_number
        /\ \E d \in companions : d.id # c.id /\ d.access_status # "checked_in"

Duplicate(resp, type, checked_in_at) ==
    /\ resp.status = "warning"
    /\ resp.code = 200
    /\ resp.type = type
    /\ resp.subject.access_status = "checked_in"
    /\ resp.subject.checked_in_at = checked_in_at

\* C4: a scan that finds its credential checked_in answers the duplicate
\* warning with the check-in time on record, and no step of it writes:
\* status and recorded time stay as they were.
C4_RescanWarnsNoWrite ==
    [][\A p \in Scanners :
          /\ \A c \in companions :
                ( /\ scan[p].pc = "idle" /\ scan'[p].pc # "idle"
                  /\ c.qr_data = scan'[p].qr_data /\ c.access_status = "checked_in" )
                => /\ scan'[p].pc = "done"
                   /\ Duplicate(scan'[p].response, "companion", c.checked_in_at)
                   /\ companions' = companions /\ students' = students
          /\ \A s \in Students :
                ( /\ scan[p].pc = "select_student" /\ scan'[p].pc # "select_student"
                  /\ \A c \in companions : c.qr_data # scan[p].qr_data
                  /\ students[s].qr_data = scan[p].qr_data
                  /\ students[s].access_status = "checked_in" )
                => /\ scan'[p].pc = "done"
                   /\ Duplicate(scan'[p].response, "student", students[s].checked_in_at)
                   /\ companions' = companions /\ students' = students
          /\ ( scan[p].pc = "idle" /\ scan'[p].pc = "select_student" )
                => companions' = companions /\ students' = students]_vars

\* Both scanners have been warned about the same checked-in companion, which
\* still carries the time of its check-in, earlier than now.
C4_Witness ==
    \E c \in companions :
        /\ c.access_status = "checked_in"
        /\ c.checked_in_at # NULL
        /\ c.checked_in_at < clock
        /\ \A p \in Scanners :
              /\ scan[p].pc = "done"
              /\ scan[p].qr_data = c.qr_data
              /\ Duplicate(scan[p].response, "companion", c.checked_in_at)

Denied(resp, type) ==
    /\ resp.status = "error"
    /\ resp.code = 403
    /\ resp.type = type
    /\ resp.subject.access_status = "denied"

\* C5: a scan that finds its credential denied answers "denied" (403) and no
\* step of it writes: status stays denied, the check-in time stays as it was.
C5_DeniedNoWrite ==
    [][\A p \in Scanners :
          /\ \A c \in companions :
                ( /\ scan[p].pc = "idle" /\ scan'[p].pc # "idle"
                  /\ c.qr_data = scan'[p].qr_data /\ c.access_status = "denied" )
                => /\ scan'[p].pc = "done"
                   /\ Denied(scan'[p].response, "companion")
                   /\ companions' = companions /\ students' = students
          /\ \A s \in Students :
                ( /\ scan[p].pc = "select_student" /\ scan'[p].pc # "select_student"
                  /\ \A c \in companions : c.qr_data # scan[p].qr_data
                  /\ students[s].qr_data = scan[p].qr_data
                  /\ students[s].access_status = "denied" )
                => /\ scan'[p].pc = "done"
                   /\ Denied(scan'[p].response, "student")
                   /\ companions' = companions /\ students' = students
          /\ ( scan[p].pc = "idle" /\ scan'[p].pc = "select_student" )
                => companions' = companions /\ students' = students]_vars

\* A denied student and a denied companion have both been turned away.
C5_Witness ==
    /\ \E p \in Scanners : \E s \in Students :
          /\ scan[p].pc = "done"
          /\ Denied(scan[p].response, "student")
          /\ students[s].qr_data = scan[p].qr_data
          /\ students[s].access_status = "denied"
          /\ students[s].checked_in_at = NULL
    /\ \E p \in Scanners : \E c \in companions :
          /\ scan[p].pc = "done"
          /\ Denied(scan[p].response, "companion")
          /\ c.qr_data = scan[p].qr_data
          /\ c.access_status = "denied"
          /\ c.checked_in_at = NULL

AdminReset ==
    \/ admin_reset_checkin
    \/ \E cedula \in Cedulas : admin_reset_checkin_cedula(cedula)

\* C6: a credential (a row of either table) that is checked_in or denied
\* changes status only in a step of an administrative reset, and then to
\* pending.
C6_TerminalUntilReset ==
    [][/\ \A c \in companions : \A d \in companions' :
             ( /\ d.id = c.id
               /\ c.access_status \in {"checked_in", "denied"}
               /\ d.access_status # c.access_status )
             => d.access_status = "pending" /\ AdminReset
       /\ \A s \in Students :
             ( /\ students[s].access_status \in {"checked_in", "denied"}
               /\ students'[s].access_status # students[s].access_status )
             => students'[s].access_status = "pending" /\ AdminReset]_vars

\* C7: the handler of a job is invoked at most once, whatever calls of
\* create_job, start_job and cancel_job are made.
C7_HandlerAtMostOnce == \A j \in JobIds : handler_calls[j] <= 1

TerminalStatuses == {"completed", "failed", "cancelled"}

\* C8: once the status of a job is completed, failed or cancelled, it never
\* changes again.
C8_TerminalStatusIsFinal ==
    [][\A j \in DOMAIN active_jobs :
          active_jobs[j].status \in TerminalStatuses
          => ( j \in DOMAIN active_jobs'
               => active_jobs'[j].status = active_jobs[j].status )]_vars

IsPending(j) == j \in DOMAIN active_jobs /\ active_jobs[j].status = "pending"

Called(op) == last_call' # last_call /\ last_call'.op = op

\* C9: cancel_job returns true exactly when the job exists and is pending,
\* and then that job alone becomes cancelled; otherwise it returns false and
\* the job table is unchanged. No step other than this one makes a job
\* cancelled.
C9_CancelOnlyPending ==
    [][/\ Called("cancel_job") =>
             LET j == last_call'.job_id
             IN  IF IsPending(j)
                 THEN /\ last_call'.ret = TRUE
                      /\ active_jobs'[j].status = "cancelled"
                      /\ DOMAIN active_jobs' = DOMAIN active_jobs
                      /\ \A k \in DOMAIN active_jobs \ {j} : active_jobs'[k] = active_jobs[k]
                 ELSE /\ last_call'.ret = FALSE
                      /\ active_jobs' = active_jobs
       /\ \A j \in DOMAIN active_jobs' :
             ( /\ active_jobs'[j].status = "cancelled"
               /\ ~(j \in DOMAIN active_jobs /\ active_jobs[j].status = "cancelled") )
             => IsPending(j) /\ Called("cancel_job") /\ last_call'.job_id = j]_vars

\* cancel_job has returned true for a pending job, which is now cancelled
\* with its completion time set.
C9_Witness ==
    /\ last_call.op = "cancel_job"
    /\ last_call.ret = TRUE
    /\ active_jobs[last_call.job_id].status = "cancelled"
    /\ active_jobs[last_call.job_id].completed_at # NULL

\* C10: start_job returns false and schedules nothing when the job is
\* unknown or not pending; otherwise it returns true having scheduled one
\* execution, which has not run: the job is still as it was and its handler
\* has not been invoked by the call.
C10_StartOnlyPending ==
    [][Called("start_job") =>
          LET j == last_call'.job_id
          IN  /\ active_jobs' = active_jobs
              /\ handler_calls' = handler_calls
              /\ IF IsPending(j)
                 THEN /\ last_call'.ret = TRUE
                      /\ Len(tasks') = Len(tasks) + 1
                      /\ \A k \in DOMAIN tasks : tasks'[k] = tasks[k]
                      /\ tasks'[Len(tasks')].job_id = j
                      /\ tasks'[Len(tasks')].pc = "scheduled"
                 ELSE /\ last_call'.ret = FALSE
                      /\ tasks' = tasks]_vars

\* start_job has returned true: the execution is scheduled, the job is
\* pending and its handler not yet invoked.
C10_Witness ==
    /\ last_call.op = "start_job"
    /\ last_call.ret = TRUE
    /\ active_jobs[last_call.job_id].status = "pending"
    /\ handler_calls[last_call.job_id] = 0
    /\ \E t \in DOMAIN tasks :
          tasks[t].job_id = last_call.job_id /\ tasks[t].pc = "scheduled"

TaskEnds(t, pc) ==
    /\ t \in DOMAIN tasks
    /\ tasks[t].pc \in Awaiting
    /\ tasks'[t].pc = pc
    /\ tasks[t].job_id \in DOMAIN active_jobs

\* C11: when the handler of a job raises, the job becomes failed with the
\* message of the exception as error_message; when it returns, the job
\* becomes completed with the returned value as result and progress 100.
C11_OutcomeRecorded ==
    [][\A t \in 1..MaxTasks :
          /\ TaskEnds(t, "raised") =>
                /\ active_jobs'[tasks[t].job_id].status = "failed"
                /\ active_jobs'[tasks[t].job_id].error_message = tasks'[t].exc.message
                /\ tasks'[t].exc.message # ""
          /\ TaskEnds(t, "returned") =>
                /\ active_jobs'[tasks[t].job_id].status = "completed"
                /\ active_jobs'[tasks[t].job_id].result = tasks'[t].ret
                /\ active_jobs'[tasks[t].job_id].progress = 100
                /\ tasks'[t].ret # NoResult]_vars

\* A job failed by a raising handler carries the message, and a poll shows it.
C11_Witness ==
    \E t \in DOMAIN tasks :
        /\ tasks[t].pc = "raised"
        /\ tasks[t].exc.message = "connection lost"
        /\ tasks[t].job_id \in DOMAIN active_jobs
        /\ active_jobs[tasks[t].job_id].status = "failed"
        /\ active_jobs[tasks[t].job_id].error_message = "connection lost"
        /\ status_seen[tasks[t].job_id].found
        /\ status_seen[tasks[t].job_id].error_message = "connection lost"

\* C12: the progress that successive get_job_status polls of a job return
\* is within 0..100 and never decreases.
C12_ProgressNeverDecreases ==
    [][\A j \in JobIds :
          ( status_seen[j].found /\ status_seen'[j].found )
          => /\ status_seen'[j].progress \in 0..100
             /\ status_seen'[j].progress >= status_seen[j].progress]_vars

StartReturnedTrue(j) ==
    /\ last_call.op = "start_job"
    /\ last_call.job_id = j
    /\ last_call.ret = TRUE

HasStatus(j, statuses) ==
    j \in DOMAIN active_jobs /\ active_jobs[j].status \in statuses

\* C13: after a start_job that returned true the job eventually becomes
\* running, and a running job eventually becomes completed or failed, when
\* the loop runs its tasks and the awaited calls return or raise.
C13_StartedJobRunsToEnd ==
    \A j \in JobIds :
        /\ StartReturnedTrue(j) ~> HasStatus(j, {"running"})
        /\ HasStatus(j, {"running"}) ~> HasStatus(j, {"completed", "failed"})

ReportedFailure(k) == tasks[k].exc.type = "Exception"

\* C14: a full_process job runs sync, then qr_generation, then
\* email_sending: a step starts only after the step before it reported
\* success, no step of the job starts once a step of it has reported
\* failure, and the report of a failure leaves the job failed.
C14_PipelineInOrder ==
    [][\A t \in 1..MaxTasks :
          /\ ( /\ t \in DOMAIN tasks
               /\ tasks'[t].pc # tasks[t].pc
               /\ tasks'[t].pc \in {"sync", "qr_generation", "email_sending"} )
             => /\ tasks[t].pc = ( IF tasks'[t].pc = "sync" THEN "scheduled"
                                   ELSE IF tasks'[t].pc = "qr_generation" THEN "sync"
                                   ELSE "qr_generation" )
                /\ tasks'[t].pc # "sync" =>
                      /\ tasks'[t].results[tasks[t].pc].set
                      /\ tasks'[t].results[tasks[t].pc].success
                /\ \A k \in DOMAIN tasks :
                      tasks[k].job_id = tasks[t].job_id => ~ReportedFailure(k)
          /\ ( /\ TaskEnds(t, "raised")
               /\ tasks'[t].exc.type = "Exception" )
             => active_jobs'[tasks[t].job_id].status = "failed"]_vars

\* C15: when a full_process job has failed at some step, the result that
\* get_job_status returns holds the results of the steps completed before.
C15_PartialResultsKept ==
    \A t \in DOMAIN tasks :
        ( /\ tasks[t].pc = "raised"
          /\ tasks[t].results.sync.set
          /\ status_seen[tasks[t].job_id].found
          /\ status_seen[tasks[t].job_id].status = "failed" )
        => /\ status_seen[tasks[t].job_id].result # NoResult
           /\ "sync" \in DOMAIN status_seen[tasks[t].job_id].result
           /\ status_seen[tasks[t].job_id].result.sync = tasks[t].results.sync

\* C16: cleanup_completed_jobs removes exactly the jobs that are completed,
\* failed or cancelled with a completion time before the threshold, and
\* leaves every other job as it was.
C16_CleanupRemovesOldTerminal ==
    [][Called("cleanup_completed_jobs") =>
          LET old == {j \in DOMAIN active_jobs :
                         /\ active_jobs[j].status \in TerminalStatuses
                         /\ active_jobs[j].completed_at # NULL
                         /\ active_jobs[j].completed_at < clock - last_call'.max_age_hours}
          IN  /\ DOMAIN active_jobs' = DOMAIN active_jobs \ old
              /\ \A j \in DOMAIN active_jobs' : active_jobs'[j] = active_jobs[j]
              /\ last_call'.removed = Cardinality(old)]_vars

\* A cleanup has removed the one job, and a task of that job has ended.
C16_Witness ==
    /\ last_call.op = "cleanup_completed_jobs"
    /\ last_call.removed = 1
    /\ active_jobs = <<>>
    /\ \E t \in DOMAIN tasks : tasks[t].pc \in {"returned", "raised"}

RECURSIVE Flatten(_)
Flatten(seqs) == IF seqs = <<>> THEN <<>> ELSE Head(seqs) \o Flatten(Tail(seqs))

Missing(s) ==
    /\ students[s].payment_confirmed
    /\ students[s].qr_data = NoQrData \/ students[s].qr_image_b64 = NoImage

\* C17: for n eligible students and chunk size b the generator processes
\* ceil(n/b) consecutive chunks, each of at most b and all but the last of
\* exactly b students, that cover every eligible student once; with no
\* failed unit and a bulk update that is committed generated_count =
\* total_students = n. 120 students in chunks of 50 make chunks of 50, 50
\* and 20.
C17_ChunksCoverEligible ==
    /\ \A g \in Generators :
          batch[g].pc \in {"update", "done"} /\ batch[g].students # <<>> =>
             LET n == Len(batch[g].students)
                 b == batch[g].batch_size
                 chunks == batch[g].chunks
             IN  /\ Len(chunks) = (n + b - 1) \div b
                 /\ \A k \in DOMAIN chunks :
                       /\ Len(chunks[k]) <= b
                       /\ k < Len(chunks) => Len(chunks[k]) = b
                 /\ Flatten(chunks) = batch[g].students
                 /\ \A k, l \in 1..n :
                       k # l => batch[g].students[k] # batch[g].students[l]
                 /\ batch[g].pc = "update" =>
                       {batch[g].students[k] : k \in 1..n}
                           = {s \in DOMAIN students : Missing(s)}
                 /\ batch[g].pc = "done" /\ batch[g].failed = {}
                       /\ batch[g].result.error = "" =>
                       /\ batch[g].result.generated_count = n
                       /\ batch[g].result.total_students = n
    /\ LET chunks == Chunks([k \in 1..120 |-> k], 0, 50)
       IN  [k \in DOMAIN chunks |-> Len(chunks[k])] = <<50, 50, 20>>

\* Five students in chunks of two, two and one, every one with a credential.
C17_Witness ==
    /\ batch[1].pc = "done"
    /\ [k \in DOMAIN batch[1].chunks |-> Len(batch[1].chunks[k])] = <<2, 2, 1>>
    /\ batch[1].result.generated_count = 5
    /\ batch[1].result.total_students = 5
    /\ \A s \in DOMAIN students : ~Missing(s)

\* C18: a run of the batch generator that finds no eligible student writes
\* nothing to the store and returns generated_count = 0.
C18_NothingEligibleNoWrite ==
    [][\A g \in Generators :
          /\ ( /\ batch[g].pc = "idle"
               /\ batch'[g] # batch[g]
               /\ \A s \in DOMAIN students : ~Missing(s) )
             => /\ batch'[g].pc = "done"
                /\ batch'[g].result.success
                /\ batch'[g].result.generated_count = 0
                /\ students' = students
                /\ companions' = companions
          /\ ( batch[g].pc = "done" /\ batch'[g] # batch[g] )
             => /\ batch'[g].pc = "idle"
                /\ students' = students
                /\ companions' = companions]_vars

\* The second of two runs: the first gave every student a credential, this
\* one has returned zero.
C18_Witness ==
    /\ batch[1].pc = "done"
    /\ batch[1].result.success
    /\ batch[1].result.generated_count = 0
    /\ batch[1].students = <<>>
    /\ DOMAIN students # {}
    /\ \A s \in DOMAIN students :
          /\ students[s].qr_data # NoQrData
          /\ students[s].qr_data.hex > 1
          /\ students[s].qr_image_b64 = [png |-> students[s].qr_data]

\* C19: no two credentials share a token, among the primary ones, among the
\* companion ones, and between a primary and a companion one.
C19_TokensDistinct ==
    /\ \A s1, s2 \in DOMAIN students :
          s1 # s2 /\ students[s1].qr_data # NoQrData
          => students[s1].qr_data # students[s2].qr_data
    /\ \A c1, c2 \in companions : c1 # c2 => c1.qr_data # c2.qr_data
    /\ \A s \in DOMAIN students : \A c \in companions :
          students[s].qr_data # c.qr_data

\* A primary and a companion credential made from the same uuid4 value, and
\* two primary credentials in the store.
C19_Witness ==
    /\ \E s \in DOMAIN students : \E c \in companions :
          /\ students[s].qr_data # NoQrData
          /\ students[s].qr_data.hex = c.qr_data.hex
    /\ \A s \in DOMAIN students : students[s].qr_data # NoQrData
    /\ Cardinality(companions) = 4

\* C20: when units of a run fail the run goes on: its bulk update, when the
\* store commits it, gives
\* every student whose unit succeeded the credential made for it, leaves
\* the students whose unit failed without one, and the run returns success
\* with generated_count = total_students less the failed units.
C20_FailedUnitsSkipped ==
    [][\A g \in Generators :
          ( /\ batch[g].pc = "update" /\ batch'[g].pc = "done"
            /\ batch'[g].result.error = "" )
          => /\ \A k \in DOMAIN batch[g].all_qr_data :
                   LET r == batch[g].all_qr_data[k]
                   IN  /\ r.student_id \notin batch[g].failed
                       /\ students'[r.student_id].qr_data = r.qr_data
                       /\ students'[r.student_id].qr_data # NoQrData
                       /\ students'[r.student_id].qr_image_b64 = r.qr_image_b64
                       /\ students'[r.student_id].qr_generated_at = r.qr_generated_at
             /\ \A s \in batch[g].failed :
                   /\ students'[s] = students[s]
                   /\ students'[s].qr_data = NoQrData
             /\ Len(batch[g].chunks) =
                   (Len(batch[g].students) + batch[g].batch_size - 1)
                       \div batch[g].batch_size
             /\ batch'[g].result.success
             /\ batch'[g].result.total_students = Len(batch[g].students)
             /\ batch'[g].result.generated_count =
                   Len(batch[g].students) - Cardinality(batch[g].failed)]_vars

\* A run that has ended with failed units and with credentials issued.
C20_Witness ==
    /\ batch[1].pc = "done"
    /\ batch[1].result.success
    /\ batch[1].failed # {}
    /\ batch[1].result.generated_count > 0
    /\ \A s \in batch[1].failed : students[s].qr_data = NoQrData
    /\ \E s \in DOMAIN students : students[s].qr_data.hex > 1

\* C21: when the bulk update of a run raises, nothing of it is committed:
\* every student row is as it was before the update began, also the rows
\* the statements before the failing one had written; and the run returns
\* success = False with the message of the exception as its error.
C21_FailedWriteCommitsNothing ==
    [][\A g \in Generators :
          ( /\ batch[g].pc = "update" /\ batch'[g].pc = "done"
            /\ ~batch'[g].result.success )
          => /\ students' = students
             /\ companions' = companions
             /\ batch'[g].result.error \in {str(OperationalError), str(UniqueViolation)}
             /\ batch'[g].result.error # ""
             /\ batch'[g].result.generated_count = 0]_vars

\* The connection was lost after the first UPDATE of a bulk update of
\* several: the run has returned the error and no student has a credential.
C21_Witness ==
    /\ batch[1].pc = "done"
    /\ ~batch[1].result.success
    /\ batch[1].result.error = str(OperationalError)
    /\ batch[1].executed >= 1
    /\ Len(batch[1].all_qr_data) >= 2
    /\ \A k \in DOMAIN batch[1].all_qr_data :
          /\ students[batch[1].all_qr_data[k].student_id].qr_data = NoQrData
          /\ students[batch[1].all_qr_data[k].student_id].qr_image_b64 = NoImage
          /\ students[batch[1].all_qr_data[k].student_id].qr_generated_at = NULL

\* The dict a sync or a generation returns when its write to the store
\* raised: {'success': False, 'error': ...}.
ReturnedWriteFailure(job) ==
    /\ job.job_type \in {"sync_students", "generate_qrs"}
    /\ job.result.set
    /\ ~job.result.success

\* C29: a sync or generation job whose write to the store failed ends
\* Failed with the description of the failure as its error_message, and
\* never Completed.
C29_WriteFailureFailsJob ==
    \A j \in DOMAIN active_jobs :
        ReturnedWriteFailure(active_jobs[j])
        => /\ active_jobs[j].status = "failed"
           /\ active_jobs[j].error_message # ""

\* C28: the credentials of a chunk are written to the store before the
\* next chunk is begun: while a later chunk is generated, every credential
\* made in the chunks before it is in the row of its student.
C28_ChunkWrittenBeforeNext ==
    \A g \in Generators :
        batch[g].pc = "generate" /\ batch[g].i > 0
        => \A k \in DOMAIN batch[g].all_qr_data :
              LET r == batch[g].all_qr_data[k]
              IN  /\ students[r.student_id].qr_data = r.qr_data
                  /\ students[r.student_id].qr_image_b64 = r.qr_image_b64
                  /\ students[r.student_id].qr_generated_at = r.qr_generated_at

\* C25: a regeneration for a student that had exactly two companion
\* credentials leaves that student, when its create_companion_qr_codes
\* returns, with exactly two, in slots 1 and 2, both pending, holding the
\* two new tokens it returns; none of them is a token the student had
\* before, and no credential of the store holds one of those any more.
C25_RegenerationReplacesBoth ==
    [][\A q \in Issuers :
          ( /\ issuer[q].pc = "create"
            /\ Cardinality(issuer[q].replaced) = 2
            /\ issuer'[q].pc = "have" )
          => LET sid == issuer[q].student_id
                 mine == CompanionsOf(companions', sid)
             IN  /\ Cardinality(mine) = 2
                 /\ {c.companion_number : c \in mine} = {1, 2}
                 /\ \A c \in mine : /\ c.access_status = "pending"
                                     /\ c.qr_data \notin issuer[q].replaced
                 /\ \A n \in {1, 2} : \A c \in SlotOf(companions', sid, n) :
                       c.qr_data = issuer'[q].qr_codes[n]
                 /\ \A c \in companions' : c.qr_data \notin issuer[q].replaced
                 /\ \A s \in DOMAIN students' :
                       students'[s].qr_data \notin issuer[q].replaced]_vars

\* A regeneration has returned while another issuer had created the two
\* credentials anew between its DELETE and its upserts.
C25_Witness ==
    \E q \in Issuers :
        /\ issuer[q].pc = "have"
        /\ Cardinality(issuer[q].replaced) = 2
        /\ \A c \in CompanionsOf(companions, issuer[q].student_id) :
              /\ c.id <= companions_seq - 2
              /\ c.qr_data \in {issuer[q].qr_codes[1], issuer[q].qr_codes[2]}

\* C26: in every state a student has one row of students, hence at most
\* one primary credential, and at most two companion credentials, in slots
\* 1 and 2, no two of them in the same slot.
C26_AtMostTwoCompanions ==
    /\ \A s \in DOMAIN students :
          Cardinality({x \in DOMAIN students : students[x].id = students[s].id}) = 1
    /\ \A s \in DOMAIN students :
          /\ Cardinality(CompanionsOf(companions, students[s].id)) <= 2
          /\ \A n \in {1, 2} : Cardinality(SlotOf(companions, students[s].id, n)) <= 1
    /\ \A c \in companions :
          /\ c.companion_number \in {1, 2}
          /\ c.student_id \in {students[s].id : s \in DOMAIN students}

\* Two issuers found no credentials for the same student and each has
\* created the two of them.
C26_Witness ==
    /\ issuer[1].pc = "have"
    /\ issuer[2].pc = "have"
    /\ issuer[1].student_id = issuer[2].student_id
    /\ issuer[1].replaced = {}
    /\ issuer[2].replaced = {}
    /\ issuer[1].qr_codes # issuer[2].qr_codes
    /\ Cardinality(CompanionsOf(companions, issuer[1].student_id)) = 2

\* The first n deliveries tried for a student all returned False.
FirstFailed(log, n) == Len(log) >= n /\ \A k \in 1..n : log[k] = "failed"

\* How many of the deliveries tried returned True.
Sent(log) == Cardinality({k \in DOMAIN log : log[k] = "sent"})

\* Where the job of a student waits for a delivery in a run.
Queued(r, s) ==
    \/ \E k \in DOMAIN mail[r].queue : mail[r].queue[k] = s
    \/ \E k \in DOMAIN mail[r].failed_queue : mail[r].failed_queue[k] = s
    \/ \E k \in DOMAIN mail[r].batch : mail[r].batch[k] = s

\* C22: a job whose delivery returned False max_retries - 1 times and then
\* True is delivered exactly once: no further delivery is tried for it,
\* qr_sent_at of its student was written once and is set, sent_count was
\* incremented once for it and failed_count never.
C22_DeliveredOnceAfterRetries ==
    \A r \in Runs, s \in DOMAIN students :
        LET log == mail[r].attempts[s]
        IN  ( /\ FirstFailed(log, max_retries - 1)
              /\ Len(log) >= max_retries
              /\ log[max_retries] = "sent" )
            => /\ Len(log) = max_retries
               /\ students[s].qr_sent_at # NULL
               /\ mail[r].marked[s] = 1
               /\ mail[r].sent_for[s] = 1
               /\ mail[r].failed_for[s] = 0

\* C23: a job whose delivery returned False max_retries times is never
\* marked delivered, was counted in failed_count exactly once, waits in no
\* queue and no delivery is tried for it again; a job with fewer failures
\* and retries than max_retries and no success waits for its next delivery
\* while the worker runs.
C23_DroppedAfterMaxRetries ==
    \A r \in Runs, s \in DOMAIN students :
        LET log == mail[r].attempts[s]
        IN  /\ FirstFailed(log, max_retries)
               => /\ Len(log) = max_retries
                  /\ students[s].qr_sent_at = NULL
                  /\ mail[r].failed_for[s] = 1
                  /\ ~Queued(r, s)
            /\ ( /\ log # <<>>
                 /\ Len(log) < max_retries
                 /\ FirstFailed(log, Len(log))
                 /\ mail[r].retry_count[s] < max_retries )
               => Queued(r, s)

\* C24: qr_sent_at of a student is written only by a delivery that
\* returned True, after sendmail went through: every step that changes it
\* sets it and adds a successful delivery for that student, and it is never
\* written more often than deliveries succeeded.
C24_SentAtOnlyAfterSend ==
    [][\A s \in DOMAIN students :
          /\ students'[s].qr_sent_at # students[s].qr_sent_at
             => /\ students'[s].qr_sent_at # NULL
                /\ \E r \in Runs :
                      Sent(mail'[r].attempts[s]) > Sent(mail[r].attempts[s])
          /\ \A r \in Runs :
                /\ mail'[r].marked[s] > mail[r].marked[s]
                   => students'[s].qr_sent_at # NULL
                /\ mail'[r].marked[s] = Sent(mail'[r].attempts[s])]_vars

\* A student whose first delivery failed and whose second went through,
\* and another whose deliveries all failed, none of them marked.
C24_Witness ==
    /\ Len(students) = 2
    /\ mail[1].attempts[1] = <<"failed", "sent">>
    /\ students[1].qr_sent_at # NULL
    /\ FirstFailed(mail[1].attempts[2], max_retries)
    /\ students[2].qr_sent_at = NULL

\* C27: every run of send_qr_emails_batch returns; it leaves its loop only
\* with both queues empty or with the ceiling passed, the worker task is
\* then cancelled or has ended, and after the return no delivery is tried
\* and nothing of the queue or the store changes.
C27_RunReturnsAndStopsWorker ==
    /\ \A r \in Runs : (mail[r].pc # "idle") ~> (mail[r].pc = "returned")
    /\ [][\A r \in Runs :
             ( mail[r].pc \in {"monitor", "retry", "sleep"} /\ mail'[r].pc = "returned" )
             => /\ \/ mail[r].queue = <<>> /\ mail[r].failed_queue = <<>>
                   \/ mail'[r].elapsed > TimeoutPolls
                /\ mail'[r].worker \in {"cancelled", "dead"}]_vars
    /\ [][\A r \in Runs :
             mail[r].pc = "returned"
             => /\ mail'[r].attempts = mail[r].attempts
                /\ mail'[r] = mail[r]
                /\ students' = students]_vars

\* The run has returned at the ceiling and has cancelled a worker that
\* held a job in its batch, with another job still in the queue.
C27_Witness ==
    /\ mail[1].pc = "returned"
    /\ mail[1].elapsed > TimeoutPolls
    /\ mail[1].worker = "cancelled"
    /\ mail[1].batch # <<>>
    /\ mail[1].queue # <<>>

\* C30: a run started without the SMTP settings returns at once, before
\* any sleep of the monitor loop, reports no success, tries no delivery and
\* writes no qr_sent_at.
C30_MissingConfigRejectedAtOnce ==
    \A r \in Runs :
        ( /\ mail[r].pc = "returned"
          /\ ~mail[r].smtp_config
          /\ mail[r].total_emails > 0 )
        => /\ mail[r].elapsed = 0
           /\ ~mail[r].result.success
           /\ \A s \in DOMAIN students :
                 mail[r].attempts[s] = <<>> /\ mail[r].marked[s] = 0

\* C36: once cancel_job has made a job cancelled, no step invokes its
\* handler or changes its status, started_at or result, also when start_job
\* had scheduled its execution before the cancellation.
C36_CancelledJobNeverRuns ==
    [][\A j \in DOMAIN active_jobs :
          active_jobs[j].status = "cancelled"
          => /\ handler_calls'[j] = handler_calls[j]
             /\ j \in DOMAIN active_jobs'
                => /\ active_jobs'[j].status = "cancelled"
                   /\ active_jobs'[j].started_at = active_jobs[j].started_at
                   /\ active_jobs'[j].result = active_jobs[j].result]_vars

\* C37: a regeneration is all or nothing: no step takes a student who has
\* two companion credentials to a store where a reader finds fewer than
\* two, and a regeneration that fails leaves every token it was to replace
\* in the store.
C37_RegenerationAllOrNothing ==
    [][/\ \A s \in Students :
             Cardinality(CompanionsOf(companions, s)) = 2
             => Cardinality(CompanionsOf(companions', s)) = 2
       /\ \A q \in Issuers :
             ( issuer'[q].pc = "failed" /\ issuer'[q].replaced # {} )
             => \A qr \in issuer'[q].replaced : \E c \in companions' : c.qr_data = qr]_vars

C38_InvitationTokensStored ==
    [][\A q \in Issuers :
          ( issuer[q].pc = "have" /\ issuer'[q].pc = "sent" )
          => issuer[q].qr_codes = get_companion_qr_codes(issuer[q].student_id)]_vars

\* The worker task of a run has not ended.
Running(r) == mail[r].worker \in {"created", "collect", "pause", "wait"}

InQueue(r, s) == \E k \in DOMAIN mail[r].queue : mail[r].queue[k] = s

InBatch(r, s) == \E k \in DOMAIN mail[r].batch : mail[r].batch[k] = s

\* C31: a batch never holds more than batch_size jobs, and while the worker
\* runs every job on the main queue is taken into a batch and every batch,
\* full or partial, is processed.
C31_QueuedJobsAttempted ==
    /\ [](\A r \in Runs : Len(mail[r].batch) <= MaxEmailBatch)
    /\ \A r \in Runs, s \in 1..MaxRecipients :
          /\ (Running(r) /\ InQueue(r, s)) ~> (~Running(r) \/ ~InQueue(r, s))
          /\ (Running(r) /\ InBatch(r, s)) ~> (~Running(r) \/ ~InBatch(r, s))

\* The only student's job was processed alone, in a partial batch, failed,
\* was put back on the queue and processed alone again.
C31_Witness ==
    /\ Len(students) = 1
    /\ mail[1].attempts[1] = <<"failed", "sent">>
    /\ mail[1].batch = <<>>
    /\ Running(1)

\* A step of the worker that processes its batch.
Processes(r) ==
    /\ mail[r].worker = "collect"
    /\ mail[r].batch # <<>>
    /\ mail'[r].batch = <<>>

\* C32: after a batch of exactly batch_size jobs the worker sleeps for
\* 60 / rate_limit_per_minute * batch_size seconds, after a smaller batch
\* it collects again at once, and it takes that sleep at no other time.
C32_PauseOnlyAfterFullBatch ==
    [][\A r \in Runs :
          /\ Processes(r)
             => IF Len(mail[r].batch) = MaxEmailBatch
                THEN /\ mail'[r].worker = "pause"
                     /\ mail'[r].sleep * rate_limit_per_minute = 60 * MaxEmailBatch
                ELSE /\ mail'[r].worker = "collect"
                     /\ mail'[r].sleep = 0
          /\ ( mail'[r].worker = "pause" /\ mail[r].worker # "pause" )
             => Processes(r) /\ Len(mail[r].batch) = MaxEmailBatch]_vars

\* Both students were processed in one full batch, after which the worker
\* slept; the job that failed was then processed alone and the worker
\* collects again without a sleep.
C32_Witness ==
    /\ Len(students) = 2
    /\ mail[1].attempts[1] = <<"failed", "sent">>
    /\ mail[1].attempts[2] = <<"sent">>
    /\ mail[1].worker = "collect"
    /\ mail[1].sleep = 0
    /\ mail[1].batch = <<>>

\* C34: a run that returned because it found both queues empty, not at the
\* ceiling, has brought every job it loaded to its end: sent_count and
\* failed_count add up to total_emails, and the cancelled worker holds no
\* job in its batch.
C34_ReturnMeansAllJobsDone ==
    \A r \in Runs :
        ( /\ mail[r].pc = "returned"
          /\ mail[r].result.has_counts
          /\ mail[r].elapsed <= TimeoutPolls )
        => /\ mail[r].result.sent_count + mail[r].result.failed_count
                 = mail[r].result.total_emails
           /\ mail[r].batch = <<>>

\* How often the job of a student is on the two queues of a run.
TimesQueued(r, s) ==
    Cardinality({k \in DOMAIN mail[r].queue : mail[r].queue[k] = s})
        + Cardinality({k \in DOMAIN mail[r].failed_queue : mail[r].failed_queue[k] = s})

\* C35: within a run no job is sent more than once, none is on the queues
\* more than once, a job that was sent is on no queue, and sent_count and
\* failed_count together never exceed the number of jobs loaded.
C35_NoDuplicateDelivery ==
    \A r \in Runs :
        /\ \A s \in DOMAIN students :
              /\ Sent(mail[r].attempts[s]) <= 1
              /\ TimesQueued(r, s) <= 1
              /\ Sent(mail[r].attempts[s]) = 1 => TimesQueued(r, s) = 0
        /\ mail[r].sent_count + mail[r].failed_count <= mail[r].total_emails

\* The deliveries that went through for a student in the runs 1 to r.
RECURSIVE Notifications(_, _)
Notifications(r, s) ==
    IF r = 0 THEN 0 ELSE Sent(mail[r].attempts[s]) + Notifications(r - 1, s)

\* C39: a run never loads a student whose qr_sent_at is set, and over all
\* runs, concurrent ones included, a student is sent its code at most once.
C39_OneNotificationPerStudent ==
    [][/\ \A r \in Runs :
             ( mail[r].pc = "idle" /\ mail'[r].pc # "idle" )
             => \A k \in DOMAIN mail'[r].queue :
                   students[mail'[r].queue[k]].qr_sent_at = NULL
       /\ \A s \in DOMAIN students : Notifications(MaxRuns, s)' <= 1]_vars

====
